---- MODULE Spec2Model ----
(***************************************************************************)
(* Model of the resilient paginated fetch pattern of solana-scraping:      *)
(*   - BirdeyeAPI._make_request          (birdeye/birdeye_utils.py)        *)
(*   - BirdeyeAPI.get_token_trade_history (birdeye/birdeye_utils.py)       *)
(*   - get_pairs / get_historical_prices (moralis/moralis_utils.py)        *)
(*   - main of fetch_pump_ohlcv.py       (birdeye/fetch_pump_ohlcv.py)     *)
(* Python's None is the empty sequence, a value v that is not None is the  *)
(* one-element sequence <<v>>.                                             *)
(***************************************************************************)
EXTENDS Integers, Sequences, FiniteSets, TLC

\* ---------------------------------------------------------------- bounds
\* max_retries of _make_request ranges over 0..MaxRetries
MaxRetries == 3
\* the initial wait of _make_request ranges over 1..MaxWait and the default
MaxWait == 2
\* max_retries of the client that drives get_token_trade_history
MaxApiRetries == 1
\* limit_per_request ranges over 1..MaxLimit
MaxLimit == 3
\* the server holds at most MaxPages pages
MaxPages == 4
\* max_total_records ranges over None and 0..MaxTotal
MaxTotal == 5
\* max_retries of the Moralis functions ranges over 0..MaxMoralisRetries
MaxMoralisRetries == 1
\* and over 0..MaxRateRetries where the retry loop itself is followed
MaxRateRetries == 2
\* the Moralis server holds at most MaxMoralisPages pages of at most MaxMoralisItems records
MaxMoralisPages == 2
MaxMoralisItems == 2
\* the Moralis functions are followed for at most MaxMoralisRequests requests
MaxMoralisRequests == 4
\* get_price_by_token: pairs of the token, retry budget of the calls explored
MaxPairs == 2
\* get_creations.py runs over at most MaxCreations addresses
MaxCreations == 2
MaxPriceRetries == 1
\* the batch job runs over 1..NumAddr addresses, of which at most MaxMarked
\* have a ledger entry or an output file when it starts
NumAddr == 3
MaxMarked == 1
\* size of the batch of the resume scenario
ResumeBatch == 5
\* the flush scenario of the batch job: number of addresses
FlushBatch == 10
\* the cache: number of calls of the cached lookups
MaxCacheCalls == 2
\* raydium: the server holds at most MaxSigPages pages of signatures, of which
\* at most MaxBatchSigs per page are new; num_sigs ranges over 1..MaxNumSigs;
\* get_signatures_for_address raises at most MaxSigErrors times
MaxSigPages == 2
MaxBatchSigs == 2
MaxNumSigs == 3
MaxSigErrors == 1
\* safe_api_call followed attempt by attempt: max_retries ranges over 0..MaxSafeRetries
MaxSafeRetries == 3

\* ------------------------------------------------------ program constants
HOUR == 3600
SAFE_MAX_RETRIES == 2
GC_MAX_RETRIES == 3
GC_WAIT == 5
DEFAULT_MAX_RETRIES == 3
DEFAULT_WAIT_TIME == 5
MORALIS_INITIAL_BACKOFF == 30
save_interval == 10

\* ---------------------------------------------------------------- values
None == <<>>
Some(v) == <<v>>

\* the elements of a list
Range(q) == {q[i] : i \in 1..Len(q)}

\* status of an attempt whose requests.get raised: there is no response
NoResponse == 0
OtherStatuses == {404, 500}

\* a JSON document of the trade endpoint: data.items present or not
Malformed == [has_items |-> FALSE, items |-> <<>>]
PageJson(off, n) == [has_items |-> TRUE, items |-> [j \in 1..n |-> off + j - 1]]

VARIABLES
    \* ---- BirdeyeAPI._make_request
    max_retries,      \* self.max_retries
    initial_wait,     \* the wait argument of the outermost call
    retry,            \* the retry argument of the current (recursive) call
    wait,             \* the wait argument of the current (recursive) call
    mr_pc,            \* "idle", "call" (a call is about to issue its request), "done"
    mr_ret,           \* the value the outermost call returns
    http_requests,    \* number of requests.get calls issued
    sleeps,           \* the arguments of time.sleep, in order, of the current outermost call
    responses,        \* the responses received, in order, by the current outermost call
    attempt_waits,    \* the wait argument of each attempt, in order, of that call
    error_file,       \* the entries of data/birdeye_errors.csv, in order
    error_file_writable, \* whether opening the error file for append succeeds
    \* ---- BirdeyeAPI.get_token_trade_history
    limit_per_request,
    max_total_records,
    pages,            \* the server: sizes of the pages it holds
    offset,
    total_fetched,
    all_trades,
    th_pc,            \* "idle", "loop", "await", "done"
    th_ret,           \* the records of the returned DataFrame, or None
    page_requests,    \* number of _make_request calls of the collector
    offsets,          \* the offset of each of them, in order
    fetched_pages,    \* what _make_request returned for each page request
    \* ---- moralis get_pairs / get_historical_prices
    m_fn,             \* which of the two functions runs
    m_max_retries,    \* max_retries
    initial_backoff,
    m_pages,          \* the server: sizes of the pages it holds
    cursor,
    retry_count,
    backoff_delay,
    all_results,      \* all_pairs, respectively all_results
    m_pc,             \* "idle", "request", "returned", "raised"
    m_ret,            \* None, or the records of the returned DataFrame
    m_requests,       \* number of requests.get calls issued
    m_sleeps,         \* the arguments of time.sleep, in order
    m_log,            \* the responses received, in order
    \* ---- moralis get_price_by_token
    pair_addresses,   \* the pairs whose base token is the token, in order
    pt_i,             \* position of the loop in pair_addresses
    consolidated_file, \* the rows of data/price_history_{token}.csv, None when absent
    consolidated_df,
    results,          \* the pairs of the result mapping, with their series
    pt_pc,            \* "idle", "loop", "await", "returned", "raised"
    pt_calls,         \* the get_historical_prices calls that ended, in order
    \* ---- get_creations.py
    token_addresses,  \* the addresses the batch loop goes through, in order
    gc_pos,           \* position of the loop in token_addresses
    gc_retry,         \* the retry argument of the current (recursive) call
    gc_wait,          \* its wait argument
    info,             \* what get_token_creation_info returned
    gc_pc,            \* "idle", "loop", "call", "write", "crashed", "done"
    outfile,          \* data/token_creation_info.csv: None when absent
    errfile,          \* the lines of birdeye_errors.csv
    gc_calls,         \* the calls that returned, in order, with their result
    \* ---- fetch_pump_ohlcv.main
    args_reset,           \* --reset
    args_retry_failed,    \* --retry-failed
    args_skip_missing,    \* --skip-missing
    args_single_interval, \* TRUE when --single-interval is given
    addresses,            \* the sorted list of unique addresses
    ledger_file,          \* the content of data/ohlcv_progress.json
    initial_ledger,       \* its content when main starts
    ohlcv_files,          \* the addresses a with a file data/OHLCV_history_{a}.csv
    progress,
    skip_set,
    successful,
    failed,
    skipped,
    already_processed,
    processed_count,
    pos,                  \* position of the loop in addresses
    main_pc,              \* "idle", "start", "loop", "done"
    network,              \* the addresses whose processing went past the skip checks
    ohlcv_fetched,        \* the addresses for which OHLCV data was requested
    iterations,           \* what each processed address went through, in order
    \* ---- fetch_pump_ohlcv.fetch_multi_resolution_ohlcv
    creation_time,
    now,                  \* sampled once, at the start of the call
    all_dfs,              \* the tagged non-empty results, in order
    phases_attempted,
    phases_succeeded,
    fm_pc,                \* "idle", "phase1a", "phase1b", "phase2", "phase3", "combine", "done"
    fm_calls,             \* the safe_api_call calls made, in order, with their results
    fm_ret,               \* the records of the returned DataFrame, or None
    fm_status,            \* <<s, a>> for the status string "s/a phases"
    \* ---- BirdeyeAPI.get_token_metadata, get_token_security_details
    metadata_files,       \* the content of data/metadata_{address}.json, by address
    security_csv,         \* the content of data/security_details.csv
    cache_pc,             \* "idle", "md_write", "sec_write", "crashed"
    cache_call,           \* the call in progress
    pending_csv,          \* the content the CSV write in progress is producing
    cache_log,            \* the calls that returned, in order
    cache_begun,          \* number of calls begun
    \* ---- BirdeyeAPI._get_token_creation_time
    lk_security,          \* creationTime of the address's first row of security_details.csv
    lk_metadata,          \* what get_token_metadata(address) returns
    lk_creation_info,     \* blockUnixTime of the address's row of token_creation_info.csv
    lk_pc,                \* "idle", "security", "metadata", "creation_info", "done"
    lk_ret,               \* the creation time returned, or None
    \* ---- raydium/get_transactions.py: getTxSigs and its getTxDetail threads
    sig_pages,            \* per page of the server: how many of its signatures are not in known_sigs
    num_sigs,             \* the number of transactions asked for
    rounds,               \* pages consumed so far
    txCount,              \* threads started so far
    lastSignature,        \* the cursor: 0 for None, else the page whose last signature it is
    signatures,           \* number of threads the current batch is to start
    threads,              \* every thread created, in order: [batch, state]
    rd_i,                 \* position of the start loop, then of the join loop
    rd_pc,                \* "idle", "request", "start", "join", "done", "raised"
    sig_requests,         \* per get_signatures_for_address call: the cursor and the threads then running
    sig_errors,           \* calls of get_signatures_for_address that raised
    resultArr,            \* the threads that appended a transaction
    tx_errors,            \* the threads that wrote their signature to the error file
    \* ---- fetch_pump_ohlcv.safe_api_call, attempt by attempt
    sa_max_retries,       \* its max_retries
    sa_script,            \* what the wrapped call does at each attempt: raise, or return a value
    attempt,              \* the loop variable
    sa_made,              \* the attempts made, in order
    sa_sleeps,            \* the sleeps, in order
    sa_pc,                \* "idle", "attempt", "returned"
    sa_ret                \* the value returned

mr_vars == <<max_retries, initial_wait, retry, wait, mr_pc, mr_ret,
             http_requests, sleeps, responses, attempt_waits>>
th_vars == <<limit_per_request, max_total_records, pages, offset, total_fetched,
             all_trades, th_pc, th_ret, page_requests, offsets, fetched_pages>>
mo_vars == <<m_fn, m_max_retries, initial_backoff, m_pages, cursor, retry_count,
             backoff_delay, all_results, m_pc, m_ret, m_requests, m_sleeps, m_log>>
pt_vars == <<pair_addresses, pt_i, consolidated_file, consolidated_df, results, pt_pc,
             pt_calls>>
gc_vars == <<token_addresses, gc_pos, gc_retry, gc_wait, info, gc_pc, outfile, errfile,
             gc_calls>>
main_vars == <<args_reset, args_retry_failed, args_skip_missing, args_single_interval,
               addresses, ledger_file, initial_ledger, ohlcv_files, progress, skip_set,
               successful, failed, skipped, already_processed, processed_count, pos,
               main_pc, network, ohlcv_fetched, iterations>>
fm_vars == <<creation_time, now, all_dfs, phases_attempted, phases_succeeded,
             fm_pc, fm_calls, fm_ret, fm_status>>
cache_vars == <<metadata_files, security_csv, cache_pc, cache_call, pending_csv,
                cache_log, cache_begun>>
log_vars == <<error_file, error_file_writable>>
lk_vars == <<lk_security, lk_metadata, lk_creation_info, lk_pc, lk_ret>>
sa_vars == <<sa_max_retries, sa_script, attempt, sa_made, sa_sleeps, sa_pc, sa_ret>>
rd_vars == <<sig_pages, num_sigs, rounds, txCount, lastSignature, signatures, threads,
             rd_i, rd_pc, sig_requests, sig_errors, resultArr, tx_errors>>
vars == <<mr_vars, log_vars, th_vars, mo_vars, pt_vars, gc_vars, main_vars, fm_vars,
          cache_vars, lk_vars, rd_vars, sa_vars>>

\* the state outside the Birdeye client, outside the Moralis client, and
\* outside the batch job
outside_birdeye ==
    <<mo_vars, pt_vars, gc_vars, main_vars, fm_vars, cache_vars, lk_vars, rd_vars, sa_vars>>
outside_moralis ==
    <<mr_vars, log_vars, th_vars, pt_vars, gc_vars, main_vars, fm_vars, cache_vars, lk_vars, rd_vars, sa_vars>>
outside_main ==
    <<mr_vars, log_vars, th_vars, mo_vars, pt_vars, gc_vars, fm_vars, cache_vars, lk_vars, rd_vars, sa_vars>>
outside_fetch ==
    <<mr_vars, log_vars, th_vars, mo_vars, pt_vars, gc_vars, main_vars, cache_vars, lk_vars, rd_vars, sa_vars>>
outside_cache ==
    <<mr_vars, log_vars, th_vars, mo_vars, pt_vars, gc_vars, main_vars, fm_vars, lk_vars, rd_vars, sa_vars>>
outside_creations ==
    <<mr_vars, log_vars, th_vars, mo_vars, pt_vars, main_vars, fm_vars, cache_vars, lk_vars, rd_vars, sa_vars>>
outside_price ==
    <<mr_vars, log_vars, th_vars, gc_vars, main_vars, fm_vars, cache_vars, lk_vars, rd_vars, sa_vars>>
outside_raydium ==
    <<mr_vars, log_vars, th_vars, mo_vars, pt_vars, gc_vars, main_vars, fm_vars,
      cache_vars, lk_vars, sa_vars>>
outside_safe ==
    <<mr_vars, log_vars, th_vars, mo_vars, pt_vars, gc_vars, main_vars, fm_vars,
      cache_vars, lk_vars, rd_vars>>
outside_lookup ==
    <<mr_vars, log_vars, th_vars, mo_vars, pt_vars, gc_vars, main_vars, fm_vars,
      cache_vars, rd_vars, sa_vars>>

\* =====================================================================
\* BirdeyeAPI._make_request
\* =====================================================================

\* `retry < self.max_retries`
CanRetryOffByOne(r, m) == r <= m
CanRetry(r, m) == r < m

\* `wait * 2`: the wait handed to the next attempt
BackoffLinear(w) == w + 1
Backoff(w) == w * 2

\* `wait_time = wait * 3`: the sleep after a 429
RateLimitWaitPlain(w) == w
RateLimitWait(w) == w * 3

Response(st, dec, js) == [status |-> st, decodable |-> dec, json |-> js]

\* the identifier and the URL of the call: the token address, and the URL the
\* collector builds from its offset
Identifier == "token_address"
Url(off) == <<"offset", off>>

\* one line of the error file; url is None when _log_error gets no URL
Entry(timestamp, address, error, url) ==
    [timestamp |-> timestamp, address |-> address, error |-> error, url |-> url]

\* the error text _make_request logs for a response
ErrorText(resp) ==
    CASE resp.status = NoResponse -> <<"exception">>
      [] resp.status = 200 -> <<"JSON decode error">>
      [] resp.status = 401 -> <<"HTTP", 401>>
      [] resp.status = 429 -> <<"Rate limit (429)">>
      [] OTHER -> <<"HTTP", resp.status>>

\* _log_error: append one line, or, when the file cannot be opened or
\* written, print a warning and go on; the timestamp is the time of the
\* call, here the number of requests issued
LogErrorOverwrites(timestamp, address, error, url) ==
    error_file' = (IF error_file_writable
                   THEN <<Entry(timestamp, address, error, url)>>
                   ELSE error_file)
LogError(timestamp, address, error, url) ==
    error_file' = (IF error_file_writable
                   THEN Append(error_file, Entry(timestamp, address, error, url))
                   ELSE error_file)

\* the common tail of the retrying branches: sleep s and recurse with wait*2,
\* or give up and return None
RetryOrGiveUp(resp, s) ==
    /\ http_requests' = http_requests + 1
    /\ responses' = Append(responses, resp)
    /\ attempt_waits' = Append(attempt_waits, wait)
    /\ LogError(http_requests', Identifier, ErrorText(resp), Some(Url(offset)))
    /\ UNCHANGED error_file_writable
    /\ IF CanRetry(retry, max_retries)
       THEN /\ sleeps' = Append(sleeps, s)
            /\ retry' = retry + 1
            /\ wait' = Backoff(s)
            /\ UNCHANGED <<mr_pc, mr_ret>>
       ELSE /\ mr_pc' = "done"
            /\ mr_ret' = None
            /\ UNCHANGED <<sleeps, retry, wait>>
    /\ UNCHANGED <<max_retries, initial_wait>>

\* requests.get raises
TransportError ==
    /\ mr_pc = "call"
    /\ RetryOrGiveUp(Response(NoResponse, FALSE, Malformed), wait)
    /\ UNCHANGED <<th_vars, outside_birdeye>>

\* status 200 and response.json() succeeds
Status200Ok(js) ==
    /\ mr_pc = "call"
    /\ http_requests' = http_requests + 1
    /\ responses' = Append(responses, Response(200, TRUE, js))
    /\ attempt_waits' = Append(attempt_waits, wait)
    /\ mr_pc' = "done"
    /\ mr_ret' = Some(js)
    /\ UNCHANGED log_vars
    /\ UNCHANGED <<max_retries, initial_wait, retry, wait, sleeps>>
    /\ UNCHANGED <<th_vars, outside_birdeye>>

\* status 200 and response.json() raises
Status200BadJson ==
    /\ mr_pc = "call"
    /\ RetryOrGiveUp(Response(200, FALSE, Malformed), wait)
    /\ UNCHANGED <<th_vars, outside_birdeye>>

\* status 401: no retry
Status401Retried ==
    /\ mr_pc = "call"
    /\ RetryOrGiveUp(Response(401, FALSE, Malformed), wait)
    /\ UNCHANGED <<th_vars, outside_birdeye>>
Status401 ==
    /\ mr_pc = "call"
    /\ http_requests' = http_requests + 1
    /\ responses' = Append(responses, Response(401, FALSE, Malformed))
    /\ attempt_waits' = Append(attempt_waits, wait)
    /\ LogError(http_requests', Identifier, ErrorText(Response(401, FALSE, Malformed)),
                Some(Url(offset)))
    /\ UNCHANGED error_file_writable
    /\ mr_pc' = "done"
    /\ mr_ret' = None
    /\ UNCHANGED <<max_retries, initial_wait, retry, wait, sleeps>>
    /\ UNCHANGED <<th_vars, outside_birdeye>>

\* status 429: sleep wait*3, recurse with wait_time*2
Status429 ==
    /\ mr_pc = "call"
    /\ RetryOrGiveUp(Response(429, FALSE, Malformed), RateLimitWait(wait))
    /\ UNCHANGED <<th_vars, outside_birdeye>>

\* any other status
StatusOther ==
    /\ mr_pc = "call"
    /\ \E st \in OtherStatuses :
          RetryOrGiveUp(Response(st, FALSE, Malformed), wait)
    /\ UNCHANGED <<th_vars, outside_birdeye>>

EmptyLedger == [completed |-> <<>>, failed |-> <<>>, skipped |-> <<>>]

\* the batch job is not running
MainIdle ==
    /\ args_reset = FALSE
    /\ args_retry_failed = FALSE
    /\ args_skip_missing = FALSE
    /\ args_single_interval = FALSE
    /\ addresses = <<>>
    /\ ledger_file = EmptyLedger
    /\ initial_ledger = EmptyLedger
    /\ ohlcv_files = {}
    /\ progress = EmptyLedger
    /\ skip_set = {}
    /\ successful = <<>>
    /\ failed = <<>>
    /\ skipped = <<>>
    /\ already_processed = <<>>
    /\ processed_count = 0
    /\ pos = 1
    /\ main_pc = "idle"
    /\ network = {}
    /\ ohlcv_fetched = {}
    /\ iterations = <<>>

\* the cache files and the calls of the two cached lookups
CacheAddrs == {1, 2}
NoFile == [st |-> "absent", doc |-> <<>>]
NoCsvFile == [exists |-> FALSE, header |-> <<>>, rows |-> <<>>, torn |-> FALSE]
NoCall ==
    [fn |-> "none", seq |-> 0, address |-> 0, force_refresh |-> FALSE, requests |-> 0,
     fetched |-> None, ret |-> None, saved |-> FALSE,
     md_before |-> NoFile, csv_before |-> NoCsvFile,
     md_after |-> NoFile, csv_after |-> NoCsvFile]

\* no cached lookup is running and no cache file exists
CacheIdle ==
    /\ metadata_files = [a \in CacheAddrs |-> NoFile]
    /\ security_csv = NoCsvFile
    /\ cache_pc = "idle"
    /\ cache_call = NoCall
    /\ pending_csv = NoCsvFile
    /\ cache_log = <<>>
    /\ cache_begun = 0

\* fetch_multi_resolution_ohlcv is not running
FetchIdle ==
    /\ creation_time = 0
    /\ now = 0
    /\ all_dfs = <<>>
    /\ phases_attempted = 0
    /\ phases_succeeded = 0
    /\ fm_pc = "idle"
    /\ fm_calls = <<>>
    /\ fm_ret = None
    /\ fm_status = <<0, 0>>

\* a value read from a CSV cell or a JSON field: a number n, the decimal
\* string of n, a string that is no number, the empty string, null/NaN, or
\* nothing at all (no file, no row, no such key)
Value(kind, n) == [kind |-> kind, n |-> n]
Missing == Value("missing", 0)

\* safe_api_call is not followed attempt by attempt
SafeIdle ==
    /\ sa_max_retries = 0
    /\ sa_script = <<>>
    /\ attempt = 0
    /\ sa_made = <<>>
    /\ sa_sleeps = <<>>
    /\ sa_pc = "idle"
    /\ sa_ret = None

\* getTxSigs is not running
RaydiumIdle ==
    /\ sig_pages = <<>>
    /\ num_sigs = 0
    /\ rounds = 0
    /\ txCount = 0
    /\ lastSignature = 0
    /\ signatures = 0
    /\ threads = <<>>
    /\ rd_i = 1
    /\ rd_pc = "idle"
    /\ sig_requests = <<>>
    /\ sig_errors = 0
    /\ resultArr = {}
    /\ tx_errors = {}

\* _get_token_creation_time is not running
LookupIdle ==
    /\ lk_security = Missing
    /\ lk_metadata = [meta |-> "none", v |-> Missing]
    /\ lk_creation_info = Missing
    /\ lk_pc = "idle"
    /\ lk_ret = None

\* get_creations.py is not running
CreationsIdle ==
    /\ token_addresses = <<>>
    /\ gc_pos = 1
    /\ gc_retry = 0
    /\ gc_wait = GC_WAIT
    /\ info = None
    /\ gc_pc = "idle"
    /\ outfile = None
    /\ errfile = <<>>
    /\ gc_calls = <<>>

\* get_price_by_token is not running
PriceIdle ==
    /\ pair_addresses = <<>>
    /\ pt_i = 1
    /\ consolidated_file = None
    /\ consolidated_df = <<>>
    /\ results = {}
    /\ pt_pc = "idle"
    /\ pt_calls = <<>>

\* the Moralis client is not running
MoralisIdle ==
    /\ m_fn = "get_pairs"
    /\ m_max_retries = 0
    /\ initial_backoff = 1
    /\ m_pages = <<>>
    /\ cursor = None
    /\ retry_count = 0
    /\ backoff_delay = 1
    /\ all_results = <<>>
    /\ m_pc = "idle"
    /\ m_ret = None
    /\ m_requests = 0
    /\ m_sleeps = <<>>
    /\ m_log = <<>>

\* an empty error file that can be written
ErrorFileFresh ==
    /\ error_file = <<>>
    /\ error_file_writable = TRUE

\* an error file that cannot be opened: _log_error leaves no trace, and
\* runs that differ only in the lines logged are the same run
ErrorFileUnwritable ==
    /\ error_file = <<>>
    /\ error_file_writable = FALSE

\* the collector is not running
CollectorIdle ==
    /\ limit_per_request = 1
    /\ max_total_records = None
    /\ pages = <<>>
    /\ offset = 0
    /\ total_fetched = 0
    /\ all_trades = <<>>
    /\ th_pc = "idle"
    /\ th_ret = None
    /\ page_requests = 0
    /\ offsets = <<>>
    /\ fetched_pages = <<>>

\* the error file when a call starts: empty, or holding a line of an earlier call
EarlierEntry == Entry(0, "earlier_address", <<"HTTP", 500>>, None)
ErrorFiles == {<<>>, <<EarlierEntry>>}

InitInvoker ==
    /\ max_retries \in (0..MaxRetries) \cup {DEFAULT_MAX_RETRIES}
    /\ initial_wait \in (1..MaxWait) \cup {DEFAULT_WAIT_TIME}
    /\ retry = 0
    /\ wait = initial_wait
    /\ mr_pc = "call"
    /\ mr_ret = None
    /\ http_requests = 0
    /\ sleeps = <<>>
    /\ responses = <<>>
    /\ attempt_waits = <<>>
    /\ error_file \in ErrorFiles
    /\ error_file_writable \in BOOLEAN
    /\ PriceIdle
    /\ CreationsIdle
    /\ LookupIdle
    /\ RaydiumIdle
    /\ SafeIdle
    /\ CollectorIdle
    /\ MoralisIdle
    /\ MainIdle
    /\ FetchIdle
    /\ CacheIdle

InvokerPayloads == {Malformed, PageJson(0, 0), PageJson(0, 1)}

NextInvoker ==
    \/ TransportError
    \/ \E js \in InvokerPayloads : Status200Ok(js)
    \/ Status200BadJson
    \/ Status401
    \/ Status429
    \/ StatusOther

SpecInvoker == InitInvoker /\ [][NextInvoker]_vars

\* =====================================================================
\* BirdeyeAPI.get_token_trade_history
\* =====================================================================

\* `if max_total_records`: None and 0 are false
Truthy(m) == m # None /\ m[1] # 0

\* `total_fetched >= max_total_records`
CapReachedStrict(total, m) == Truthy(m) /\ total > m[1]
CapReached(total, m) == Truthy(m) /\ total >= m[1]

\* `len(trades) < limit_per_request`
IsLastPageInclusive(n, lim) == n <= lim
IsLastPage(n, lim) == n < lim

\* `total_fetched += len(trades)`
TotalAfterCountingPages(total, n) == total + 1
TotalAfter(total, n) == total + n

\* `offset += limit_per_request`
AdvanceOffsetSkipping(off, lim) == off + lim + 1
AdvanceOffset(off, lim) == off + lim

\* `all_trades[:max_total_records]`
Truncate(q, m) == SubSeq(q, 1, IF m < Len(q) THEN m ELSE Len(q))

\* the tail of the function: a DataFrame of all_trades, or None when empty
Finish(acc) == IF acc # <<>> THEN Some(acc) ELSE None

\* the page the server returns for `offset` and `limit`
ServerJson(off) ==
    LET idx == (off \div limit_per_request) + 1
        n   == IF idx <= Len(pages) THEN pages[idx] ELSE 0
    IN  PageJson(off, n)

\* top of the while loop: build the URL and call self._make_request(url, token_address)
TH_Request ==
    /\ th_pc = "loop"
    /\ page_requests' = page_requests + 1
    /\ offsets' = Append(offsets, offset)
    /\ th_pc' = "await"
    /\ mr_pc' = "call"
    /\ retry' = 0
    /\ wait' = DEFAULT_WAIT_TIME
    /\ initial_wait' = DEFAULT_WAIT_TIME
    /\ mr_ret' = None
    /\ sleeps' = <<>>
    /\ responses' = <<>>
    /\ attempt_waits' = <<>>
    /\ UNCHANGED log_vars
    /\ UNCHANGED <<max_retries, http_requests>>
    /\ UNCHANGED <<limit_per_request, max_total_records, pages, offset,
                   total_fetched, all_trades, th_ret, fetched_pages>>
    /\ UNCHANGED outside_birdeye

\* _make_request has returned to the collector
Returned == th_pc = "await" /\ mr_pc = "done"

\* leave the loop and return
TH_Stop(acc) ==
    /\ th_pc' = "done"
    /\ th_ret' = Finish(acc)
    /\ mr_pc' = "idle"
    /\ fetched_pages' = Append(fetched_pages, mr_ret)
    /\ UNCHANGED <<max_retries, initial_wait, retry, wait, mr_ret, http_requests,
                   sleeps, responses, attempt_waits>>
    /\ UNCHANGED <<limit_per_request, max_total_records, pages, offset, page_requests,
                   offsets>>
    /\ UNCHANGED outside_birdeye

\* `json_response is None`
TH_FailedDrops ==
    /\ Returned
    /\ mr_ret = None
    /\ TH_Stop(<<>>)
    /\ UNCHANGED log_vars
    /\ UNCHANGED <<all_trades, total_fetched>>
TH_Failed ==
    /\ Returned
    /\ mr_ret = None
    /\ TH_Stop(all_trades)
    /\ UNCHANGED log_vars
    /\ UNCHANGED <<all_trades, total_fetched>>

\* the response has no data.items: log it and stop
TH_Unexpected ==
    /\ Returned
    /\ mr_ret # None
    /\ ~mr_ret[1].has_items
    /\ LogError(http_requests, Identifier, <<"Unexpected response format", offset>>,
                Some(Url(offset)))
    /\ UNCHANGED error_file_writable
    /\ TH_Stop(all_trades)
    /\ UNCHANGED <<all_trades, total_fetched>>

\* data.items is empty
TH_Empty ==
    /\ Returned
    /\ mr_ret # None
    /\ mr_ret[1].has_items
    /\ mr_ret[1].items = <<>>
    /\ TH_Stop(all_trades)
    /\ UNCHANGED log_vars
    /\ UNCHANGED <<all_trades, total_fetched>>

\* a page with records: extend, then cap check, short-page check, or advance
TH_Page ==
    /\ Returned
    /\ mr_ret # None
    /\ mr_ret[1].has_items
    /\ mr_ret[1].items # <<>>
    /\ UNCHANGED log_vars
    /\ LET trades == mr_ret[1].items
           acc    == all_trades \o trades
           total  == TotalAfter(total_fetched, Len(trades))
       IN  /\ total_fetched' = total
           /\ IF CapReached(total, max_total_records)
              THEN /\ all_trades' = Truncate(acc, max_total_records[1])
                   /\ TH_Stop(all_trades')
              ELSE IF IsLastPage(Len(trades), limit_per_request)
              THEN /\ all_trades' = acc
                   /\ TH_Stop(acc)
              ELSE /\ all_trades' = acc
                   /\ offset' = AdvanceOffset(offset, limit_per_request)
                   /\ th_pc' = "loop"
                   /\ mr_pc' = "idle"
                   /\ fetched_pages' = Append(fetched_pages, mr_ret)
                   /\ UNCHANGED <<max_retries, initial_wait, retry, wait, mr_ret,
                                  http_requests, sleeps, responses, attempt_waits>>
                   /\ UNCHANGED <<limit_per_request, max_total_records, pages,
                                  th_ret, page_requests, offsets>>
                   /\ UNCHANGED outside_birdeye

\* the servers: at most MaxPages pages, all full but the last one, which
\* holds 0..lim records (the collector never asks beyond a page that is not full)
PageSeqs(lim) ==
    {<<>>} \cup
    {[i \in 1..k |-> IF i < k THEN lim ELSE last] : k \in 1..MaxPages, last \in 0..lim}

InitCollector ==
    /\ max_retries \in 0..MaxApiRetries
    /\ initial_wait = DEFAULT_WAIT_TIME
    /\ retry = 0
    /\ wait = DEFAULT_WAIT_TIME
    /\ mr_pc = "idle"
    /\ mr_ret = None
    /\ http_requests = 0
    /\ sleeps = <<>>
    /\ responses = <<>>
    /\ attempt_waits = <<>>
    /\ ErrorFileUnwritable
    /\ PriceIdle
    /\ CreationsIdle
    /\ LookupIdle
    /\ RaydiumIdle
    /\ SafeIdle
    /\ limit_per_request \in 1..MaxLimit
    /\ max_total_records \in {None} \cup {Some(m) : m \in 0..MaxTotal}
    /\ pages \in PageSeqs(limit_per_request)
    /\ offset = 0
    /\ total_fetched = 0
    /\ all_trades = <<>>
    /\ th_pc = "loop"
    /\ th_ret = None
    /\ page_requests = 0
    /\ offsets = <<>>
    /\ fetched_pages = <<>>
    /\ MoralisIdle
    /\ MainIdle
    /\ FetchIdle
    /\ CacheIdle

NextCollector ==
    \/ TH_Request
    \/ TransportError
    \/ \E js \in {ServerJson(offset), Malformed} : Status200Ok(js)
    \/ Status200BadJson
    \/ Status401
    \/ Status429
    \/ StatusOther
    \/ TH_Failed
    \/ TH_Unexpected
    \/ TH_Empty
    \/ TH_Page

SpecCollector == InitCollector /\ [][NextCollector]_vars

\* the collector and the invoker run in one thread that is never suspended
\* for good: a step that can be taken is taken
\* runs in which the invoker retries each page once before it gives up
InitTermination == InitCollector /\ max_retries = 1
FairCollector == InitTermination /\ [][NextCollector]_vars /\ WF_vars(NextCollector)

\* =====================================================================
\* moralis get_pairs / get_historical_prices
\* =====================================================================

\* what the server answers to a request with the current cursor: the records
\* of the page the cursor names, and a cursor when a page follows
MoralisPage(cur) ==
    LET idx == IF cur = None THEN 1 ELSE cur[1]
        n   == IF idx <= Len(m_pages) THEN m_pages[idx] ELSE 0
    IN  [status  |-> 200,
         ok      |-> TRUE,
         records |-> [j \in 1..n |-> idx * 10 + j],
         cursor  |-> IF idx < Len(m_pages) THEN Some(idx + 1) ELSE None]

MoralisFailure(st) == [status |-> st, ok |-> FALSE, records |-> <<>>, cursor |-> None]

\* `if retry_count > max_retries: break`, after the retry loop
ExhaustedRetries(rc, m) == rc > m

\* the code after the pagination loop: a DataFrame of the records
\* (get_historical_prices sorts it by timestamp), empty when there are none
MoralisFinish(acc) ==
    Some(IF m_fn = "get_historical_prices" THEN SortSeq(acc, <) ELSE acc)

\* the retry loop was left with `break`: the check after it, then either the
\* code after the pagination loop or the top of the next `while True` pass
AfterRetryLoop(acc) ==
    IF ExhaustedRetries(retry_count, m_max_retries)
    THEN /\ m_pc' = "returned"
         /\ m_ret' = MoralisFinish(acc)
         /\ UNCHANGED <<retry_count, backoff_delay>>
    ELSE /\ m_pc' = "request"
         /\ retry_count' = 0
         /\ backoff_delay' = initial_backoff
         /\ UNCHANGED m_ret

CanRequest == m_pc = "request" /\ m_requests < MaxMoralisRequests

\* `if retry_count < max_retries`, on a 429
MoralisCanRetryOnceMore(rc, m) == rc <= m
MoralisCanRetry(rc, m) == rc < m

\* status 429 with retries left: sleep, double the delay, request again
M_RateLimited ==
    /\ CanRequest
    /\ MoralisCanRetry(retry_count, m_max_retries)
    /\ m_requests' = m_requests + 1
    /\ m_log' = Append(m_log, MoralisFailure(429))
    /\ m_sleeps' = Append(m_sleeps, backoff_delay)
    /\ retry_count' = retry_count + 1
    /\ backoff_delay' = backoff_delay * 2
    /\ UNCHANGED <<m_fn, m_max_retries, initial_backoff, m_pages, cursor,
                   all_results, m_pc, m_ret>>
    /\ UNCHANGED outside_moralis

\* `return pd.DataFrame() if not all_pairs else None`: the empty frame
\* when nothing was accumulated, else None
SignalPartial(all) == Some(all)
Signal(all) == IF all = <<>> THEN Some(<<>>) ELSE None

\* status 429 with no retry left: return the signal
M_RateLimitExhausted ==
    /\ CanRequest
    /\ ~MoralisCanRetry(retry_count, m_max_retries)
    /\ m_requests' = m_requests + 1
    /\ m_log' = Append(m_log, MoralisFailure(429))
    /\ m_pc' = "returned"
    /\ m_ret' = Signal(all_results)
    /\ UNCHANGED <<m_fn, m_max_retries, initial_backoff, m_pages, cursor,
                   retry_count, backoff_delay, all_results, m_sleeps>>
    /\ UNCHANGED outside_moralis

\* status 401 whose message says "Validation service blocked":
\* QuotaExceededException leaves the function
M_Quota ==
    /\ CanRequest
    /\ m_requests' = m_requests + 1
    /\ m_log' = Append(m_log, MoralisFailure(401))
    /\ m_pc' = "raised"
    /\ UNCHANGED <<m_fn, m_max_retries, initial_backoff, m_pages, cursor,
                   retry_count, backoff_delay, all_results, m_ret, m_sleeps>>
    /\ UNCHANGED outside_moralis

\* a RequestException that is not a 429 (transport error, raise_for_status on
\* 4xx/5xx) or a JSON decode error: `break` out of the retry loop
M_RequestError ==
    /\ CanRequest
    /\ \E st \in {NoResponse, 200, 500} :
          /\ m_requests' = m_requests + 1
          /\ m_log' = Append(m_log, MoralisFailure(st))
    /\ AfterRetryLoop(all_results)
    /\ UNCHANGED <<m_fn, m_max_retries, initial_backoff, m_pages, cursor,
                   all_results, m_sleeps>>
    /\ UNCHANGED outside_moralis

\* status 200 with a decodable body: extend, adopt the cursor, `break`
M_Page ==
    /\ CanRequest
    /\ LET resp == MoralisPage(cursor) IN
       /\ m_requests' = m_requests + 1
       /\ m_log' = Append(m_log, resp)
       /\ IF resp.records # <<>>
          THEN /\ all_results' = all_results \o resp.records
               /\ cursor' = (IF resp.cursor # None THEN resp.cursor ELSE cursor)
          ELSE UNCHANGED <<all_results, cursor>>
       /\ AfterRetryLoop(all_results')
    /\ UNCHANGED <<m_fn, m_max_retries, initial_backoff, m_pages, m_sleeps>>
    /\ UNCHANGED outside_moralis

\* a call of one of the two functions is about to issue its first request
MoralisFresh ==
    /\ m_fn \in {"get_pairs", "get_historical_prices"}
    /\ initial_backoff \in {1, MORALIS_INITIAL_BACKOFF}
    /\ cursor = None
    /\ retry_count = 0
    /\ backoff_delay = initial_backoff
    /\ all_results = <<>>
    /\ m_pc = "request"
    /\ m_ret = None
    /\ m_requests = 0
    /\ m_sleeps = <<>>
    /\ m_log = <<>>
    /\ max_retries = 0
    /\ initial_wait = DEFAULT_WAIT_TIME
    /\ retry = 0
    /\ wait = DEFAULT_WAIT_TIME
    /\ mr_pc = "idle"
    /\ mr_ret = None
    /\ http_requests = 0
    /\ sleeps = <<>>
    /\ responses = <<>>
    /\ attempt_waits = <<>>
    /\ ErrorFileFresh
    /\ PriceIdle
    /\ CreationsIdle
    /\ LookupIdle
    /\ RaydiumIdle
    /\ SafeIdle
    /\ CollectorIdle
    /\ MainIdle
    /\ FetchIdle
    /\ CacheIdle

InitMoralis ==
    /\ m_max_retries \in 0..MaxMoralisRetries
    /\ m_pages \in UNION {[1..n -> 0..MaxMoralisItems] : n \in 0..MaxMoralisPages}
    /\ MoralisFresh

\* the calls in which the retry loop is followed: a larger retry budget,
\* against a server with one page or two pages of one record
InitRetry ==
    /\ m_max_retries \in 0..MaxRateRetries
    /\ m_pages \in {<<1>>, <<1, 1>>}
    /\ MoralisFresh

NextMoralis ==
    \/ M_RateLimited
    \/ M_RateLimitExhausted
    \/ M_Quota
    \/ M_RequestError
    \/ M_Page

SpecMoralis == InitMoralis /\ [][NextMoralis]_vars
SpecRetry == InitRetry /\ [][NextMoralis]_vars

\* =====================================================================
\* moralis get_price_by_token
\* =====================================================================

\* the rows get_price_by_token makes of a series: the pair_address column is
\* added to each record (a record of the model is its timestamp)
PriceRows(df, pair_address) ==
    [k \in 1..Len(df) |-> [timestamp |-> df[k], pair_address |-> pair_address]]

\* `set(zip(consolidated_df['timestamp'], consolidated_df['pair_address']))`
existing_keys(cdf) == {<<cdf[k].timestamp, cdf[k].pair_address>> : k \in 1..Len(cdf)}

\* the rows of price_df whose key is not among the existing keys
new_data(rows, keys) ==
    SelectSeq(rows, LAMBDA r : <<r.timestamp, r.pair_address>> \notin keys)

\* `sort_values(['pair_address', 'timestamp'])`
RowBefore(r1, r2) ==
    \/ r1.pair_address < r2.pair_address
    \/ r1.pair_address = r2.pair_address /\ r1.timestamp <= r2.timestamp
SortRows(rows) == SortSeq(rows, RowBefore)

\* the consolidated frame after a pair's series was added to it
Consolidated(cdf, rows) ==
    SortRows(IF cdf = <<>> THEN rows ELSE cdf \o new_data(rows, existing_keys(cdf)))

\* the server's last page for the pair was received during the call
ServedInFull(lg) == \E k \in 1..Len(lg) : lg[k].ok /\ lg[k].cursor = None

\* what is kept of a call of get_historical_prices that ended
PriceCall(pair_address, outcome) ==
    [pair_address |-> pair_address, outcome |-> outcome,
     received |-> Range(all_results), complete |-> ServedInFull(m_log)]

\* the body of the loop up to the call: get_historical_prices(pair_address, ...)
\* with its default retry budget, against the pages the server holds for the pair
PT_Fetch ==
    /\ pt_pc = "loop"
    /\ pt_i <= Len(pair_addresses)
    /\ pt_pc' = "await"
    /\ m_pc' = "request"
    /\ cursor' = None
    /\ retry_count' = 0
    /\ backoff_delay' = initial_backoff
    /\ all_results' = <<>>
    /\ m_ret' = None
    /\ m_requests' = 0
    /\ m_sleeps' = <<>>
    /\ m_log' = <<>>
    /\ UNCHANGED <<m_fn, m_max_retries, initial_backoff, m_pages>>
    /\ UNCHANGED <<pair_addresses, pt_i, consolidated_file, consolidated_df, results,
                   pt_calls>>
    /\ UNCHANGED outside_price

\* where the loop stands after a pair whose fetch returned ret: `except
\* Exception` ends with `continue`, so also after an exception at the next pair
PairDoneOrRaised(ret) == IF ret = None THEN "returned" ELSE "loop"
PairDone(ret) == "loop"

\* get_historical_prices returned: a non-empty series is added to results
\* and to the consolidated frame, which is sorted and written; an empty one
\* is passed over; None makes `price_df.empty` raise, which `except
\* Exception` catches; in each case the loop goes on with the next pair
PT_Returned ==
    /\ pt_pc = "await"
    /\ m_pc = "returned"
    /\ LET pair_address == pair_addresses[pt_i] IN
       IF m_ret # None /\ m_ret[1] # <<>>
       THEN /\ results' = results \cup {<<pair_address, m_ret[1]>>}
            /\ consolidated_df' = Consolidated(consolidated_df,
                                               PriceRows(m_ret[1], pair_address))
            /\ consolidated_file' = Some(consolidated_df')
            /\ pt_calls' = Append(pt_calls, PriceCall(pair_address, "series"))
       ELSE /\ UNCHANGED <<results, consolidated_df, consolidated_file>>
            /\ pt_calls' = Append(pt_calls, PriceCall(pair_address,
                                  IF m_ret = None THEN "none" ELSE "empty"))
    /\ pt_i' = pt_i + 1
    /\ pt_pc' = PairDone(m_ret)
    /\ m_pc' = "idle"
    /\ UNCHANGED pair_addresses
    /\ UNCHANGED <<m_fn, m_max_retries, initial_backoff, m_pages, cursor, retry_count,
                   backoff_delay, all_results, m_ret, m_requests, m_sleeps, m_log>>
    /\ UNCHANGED outside_price

\* get_historical_prices raised QuotaExceededException: `raise`
PT_QuotaExceeded ==
    /\ pt_pc = "await"
    /\ m_pc = "raised"
    /\ pt_pc' = "raised"
    /\ m_pc' = "idle"
    /\ pt_calls' = Append(pt_calls, PriceCall(pair_addresses[pt_i], "quota"))
    /\ UNCHANGED <<pair_addresses, pt_i, consolidated_file, consolidated_df, results>>
    /\ UNCHANGED <<m_fn, m_max_retries, initial_backoff, m_pages, cursor, retry_count,
                   backoff_delay, all_results, m_ret, m_requests, m_sleeps, m_log>>
    /\ UNCHANGED outside_price

\* after the last pair (or with no pair at all): return results
PT_Return ==
    /\ pt_pc = "loop"
    /\ pt_i > Len(pair_addresses)
    /\ pt_pc' = "returned"
    /\ UNCHANGED <<pair_addresses, pt_i, consolidated_file, consolidated_df, results,
                   pt_calls>>
    /\ UNCHANGED mo_vars
    /\ UNCHANGED outside_price

\* the consolidated file when the call starts: absent, or holding a row of
\* pair 1 from an earlier run
StoredRows == {None, Some(<<[timestamp |-> 11, pair_address |-> 1]>>)}

\* get_price_by_token over up to MaxPairs pairs, each served as one page of
\* one record and a last page of one or two records
InitPrice ==
    /\ pair_addresses \in {[k \in 1..n |-> k] : n \in 0..MaxPairs}
    /\ pt_i = 1
    /\ consolidated_file \in StoredRows
    /\ consolidated_df = (IF consolidated_file = None THEN <<>> ELSE consolidated_file[1])
    /\ results = {}
    /\ pt_pc = "loop"
    /\ pt_calls = <<>>
    /\ m_fn = "get_historical_prices"
    /\ m_max_retries \in 0..MaxPriceRetries
    /\ initial_backoff = MORALIS_INITIAL_BACKOFF
    /\ m_pages \in {<<1, 1>>, <<1, 2>>}
    /\ cursor = None
    /\ retry_count = 0
    /\ backoff_delay = initial_backoff
    /\ all_results = <<>>
    /\ m_pc = "idle"
    /\ m_ret = None
    /\ m_requests = 0
    /\ m_sleeps = <<>>
    /\ m_log = <<>>
    /\ max_retries = 0
    /\ initial_wait = DEFAULT_WAIT_TIME
    /\ retry = 0
    /\ wait = DEFAULT_WAIT_TIME
    /\ mr_pc = "idle"
    /\ mr_ret = None
    /\ http_requests = 0
    /\ sleeps = <<>>
    /\ responses = <<>>
    /\ attempt_waits = <<>>
    /\ ErrorFileFresh
    /\ CreationsIdle
    /\ LookupIdle
    /\ RaydiumIdle
    /\ SafeIdle
    /\ CollectorIdle
    /\ MainIdle
    /\ FetchIdle
    /\ CacheIdle

NextPrice ==
    \/ PT_Fetch
    \/ M_RateLimited
    \/ M_RateLimitExhausted
    \/ M_Quota
    \/ M_RequestError
    \/ M_Page
    \/ PT_Returned
    \/ PT_QuotaExceeded
    \/ PT_Return

SpecPrice == InitPrice /\ [][NextPrice]_vars

\* =====================================================================
\* get_creations.py: get_token_creation_info and the batch loop
\* =====================================================================

\* the 'data' object of a token_creation_info response
CreationInfo(address) == [tokenAddress |-> address]

\* an output file: whether it has the header line, and its rows
OutFile(header, rows) == Some([header |-> header, rows |-> rows])

\* top of the loop body: `info = get_token_creation_info(address)`
GC_Call ==
    /\ gc_pc = "loop"
    /\ gc_pos <= Len(token_addresses)
    /\ gc_pc' = "call"
    /\ gc_retry' = 0
    /\ gc_wait' = GC_WAIT
    /\ UNCHANGED <<token_addresses, gc_pos, info, outfile, errfile, gc_calls>>
    /\ UNCHANGED outside_creations

\* the function returns r to the loop
GC_Returns(r) ==
    /\ info' = r
    /\ gc_pc' = "write"
    /\ gc_calls' = Append(gc_calls, [address |-> token_addresses[gc_pos], info |-> r])

\* status 200 with a body that has a 'data' entry: `return json_response['data']`,
\* which is None when the entry is null
GC_Status200 ==
    /\ gc_pc = "call"
    /\ \E r \in {Some(CreationInfo(token_addresses[gc_pos])), None} : GC_Returns(r)
    /\ UNCHANGED <<token_addresses, gc_pos, gc_retry, gc_wait, outfile, errfile>>
    /\ UNCHANGED outside_creations

\* requests.get raises, the body is not JSON or has no 'data', or the status
\* is not 200: a line is added to errfile, then sleep and recurse with
\* retry+1 and wait*2, or return None when retry < max_retries is false
GC_Failure ==
    /\ gc_pc = "call"
    /\ \E error \in {"exception", "json", "status"} :
          errfile' = Append(errfile, <<token_addresses[gc_pos], error>>)
    /\ IF gc_retry < GC_MAX_RETRIES
       THEN /\ gc_retry' = gc_retry + 1
            /\ gc_wait' = gc_wait * 2
            /\ UNCHANGED <<info, gc_pc, gc_calls>>
       ELSE /\ GC_Returns(None)
            /\ UNCHANGED <<gc_retry, gc_wait>>
    /\ UNCHANGED <<token_addresses, gc_pos, outfile>>
    /\ UNCHANGED outside_creations

\* info is a dict: append its row to the output file, or create the file
\* with header and row; then the next address
GC_Write ==
    /\ gc_pc = "write"
    /\ info # None
    /\ outfile' = (IF outfile # None
                   THEN OutFile(outfile[1].header, Append(outfile[1].rows, info[1]))
                   ELSE OutFile(TRUE, <<info[1]>>))
    /\ gc_pos' = gc_pos + 1
    /\ gc_pc' = "loop"
    /\ UNCHANGED <<token_addresses, gc_retry, gc_wait, info, errfile, gc_calls>>
    /\ UNCHANGED outside_creations

\* info is None: the file is opened (created empty when it was absent), then
\* `info.keys()` raises AttributeError, which nothing catches
GC_WriteRaises ==
    /\ gc_pc = "write"
    /\ info = None
    /\ outfile' = (IF outfile # None THEN outfile ELSE OutFile(FALSE, <<>>))
    /\ gc_pc' = "crashed"
    /\ UNCHANGED <<token_addresses, gc_pos, gc_retry, gc_wait, info, errfile, gc_calls>>
    /\ UNCHANGED outside_creations

\* the loop is through
GC_Done ==
    /\ gc_pc = "loop"
    /\ gc_pos > Len(token_addresses)
    /\ gc_pc' = "done"
    /\ UNCHANGED <<token_addresses, gc_pos, gc_retry, gc_wait, info, outfile, errfile,
                   gc_calls>>
    /\ UNCHANGED outside_creations

\* the Birdeye client is not running
InvokerIdle ==
    /\ max_retries = 0
    /\ initial_wait = DEFAULT_WAIT_TIME
    /\ retry = 0
    /\ wait = DEFAULT_WAIT_TIME
    /\ mr_pc = "idle"
    /\ mr_ret = None
    /\ http_requests = 0
    /\ sleeps = <<>>
    /\ responses = <<>>
    /\ attempt_waits = <<>>
    /\ ErrorFileFresh

\* the output file when the script starts: absent, or holding the row of an
\* address completed by an earlier run (address 0, not processed again)
InitCreations ==
    /\ token_addresses \in {[k \in 1..n |-> k] : n \in 0..MaxCreations}
    /\ gc_pos = 1
    /\ gc_retry = 0
    /\ gc_wait = GC_WAIT
    /\ info = None
    /\ gc_pc = "loop"
    /\ outfile \in {None, OutFile(TRUE, <<CreationInfo(0)>>)}
    /\ errfile = <<>>
    /\ gc_calls = <<>>
    /\ LookupIdle
    /\ RaydiumIdle
    /\ SafeIdle
    /\ InvokerIdle
    /\ CollectorIdle
    /\ MoralisIdle
    /\ PriceIdle
    /\ MainIdle
    /\ FetchIdle
    /\ CacheIdle

NextCreations ==
    \/ GC_Call
    \/ GC_Status200
    \/ GC_Failure
    \/ GC_Write
    \/ GC_WriteRaises
    \/ GC_Done

SpecCreations == InitCreations /\ [][NextCreations]_vars

\* =====================================================================
\* fetch_pump_ohlcv.main
\* =====================================================================

\* the elements of a set of addresses in ascending order
RECURSIVE SeqOfSet(_)
SeqOfSet(S) ==
    IF S = {} THEN <<>>
    ELSE LET m == CHOOSE x \in S : \A y \in S : x <= y
         IN  <<m>> \o SeqOfSet(S \ {m})

\* load_progress, or the empty ledger under --reset
LoadedLedger == IF args_reset THEN EmptyLedger ELSE ledger_file

\* (a --retry-failed that leaves the failed list as it is)
AfterRetryFailedKept(p) == p
\* --retry-failed: `progress["failed"] = []`
AfterRetryFailed(p) == IF args_retry_failed THEN [p EXCEPT !.failed = <<>>] ELSE p

\* the set of addresses to skip, built from the ledger
SkipSetWithoutSkipped(p) ==
    Range(p.completed) \cup (IF ~args_retry_failed THEN Range(p.failed) ELSE {})
SkipSet(p) ==
    Range(p.completed)
        \cup (IF ~args_retry_failed THEN Range(p.failed) ELSE {})
        \cup Range(p.skipped)

\* load or reset the ledger, handle --retry-failed, build skip_set
MainStart ==
    /\ main_pc = "start"
    /\ progress' = AfterRetryFailed(LoadedLedger)
    /\ skip_set' = SkipSet(progress')
    /\ main_pc' = "loop"
    /\ UNCHANGED <<args_reset, args_retry_failed, args_skip_missing, args_single_interval,
                   addresses, ledger_file, initial_ledger, ohlcv_files, successful, failed,
                   skipped, already_processed, processed_count, pos, network, ohlcv_fetched,
                   iterations>>
    /\ UNCHANGED outside_main

\* the loop is at an address
AtAddress == main_pc = "loop" /\ pos <= Len(addresses)
\* (the address passed the ledger check alone)
ProcessingDespiteFile == AtAddress /\ addresses[pos] \notin skip_set
\* the address passed both skip checks and is processed
Processing ==
    /\ AtAddress
    /\ addresses[pos] \notin ohlcv_files
    /\ addresses[pos] \notin skip_set

main_args == <<args_reset, args_retry_failed, args_skip_missing, args_single_interval,
               addresses, initial_ledger, skip_set>>

\* the output file exists: `already_processed.append(address); continue`
Main_FileExists ==
    /\ AtAddress
    /\ addresses[pos] \in ohlcv_files
    /\ already_processed' = Append(already_processed, addresses[pos])
    /\ pos' = pos + 1
    /\ UNCHANGED <<main_args, ledger_file, ohlcv_files, progress, successful, failed,
                   skipped, processed_count, main_pc, network, ohlcv_fetched,
                   iterations>>
    /\ UNCHANGED outside_main

\* the address is in skip_set: `already_processed.append(address); continue`
Main_InSkipSet ==
    /\ AtAddress
    /\ addresses[pos] \notin ohlcv_files
    /\ addresses[pos] \in skip_set
    /\ already_processed' = Append(already_processed, addresses[pos])
    /\ pos' = pos + 1
    /\ UNCHANGED <<main_args, ledger_file, ohlcv_files, progress, successful, failed,
                   skipped, processed_count, main_pc, network, ohlcv_fetched,
                   iterations>>
    /\ UNCHANGED outside_main

\* what one pass of the loop body did for an address that is processed:
\* what _get_token_creation_time gave ("found", "missing" for None, "raised"),
\* the start_ts of the OHLCV request ("none" when no request was issued),
\* what the request gave ("data" for a non-empty series, "no_data" for None
\* or an empty one, "raised", "none" without a request), and whether the
\* output file was written
Iteration(a, lookup, start_ts, result, written) ==
    [address |-> a, lookup |-> lookup, start_ts |-> start_ts, result |-> result,
     written |-> written]

\* an address without creation time is skipped: always in multi-resolution
\* mode, in single-interval mode with --skip-missing
SkipsMissingMultiOnly == ~args_single_interval
SkipsMissing == ~args_single_interval \/ args_skip_missing

\* the start_ts an OHLCV request can be issued with: the creation time, or
\* default_start_ts when there is none and the address is not skipped
FetchStarts == {"creation_time"} \cup (IF SkipsMissing THEN {} ELSE {"default_start_ts"})
LookupOf(start_ts) == IF start_ts = "creation_time" THEN "found" ELSE "missing"

\* no creation time, in multi-resolution mode or with --skip-missing
Main_SkipNoCreationTime ==
    /\ Processing
    /\ SkipsMissing
    /\ skipped' = Append(skipped, addresses[pos])
    /\ progress' = [progress EXCEPT !.skipped = Append(@, addresses[pos])]
    /\ network' = network \cup {addresses[pos]}
    /\ iterations' = Append(iterations,
                            Iteration(addresses[pos], "missing", "none", "none", FALSE))
    /\ pos' = pos + 1
    /\ UNCHANGED <<main_args, ledger_file, ohlcv_files, successful, failed,
                   already_processed, processed_count, main_pc, ohlcv_fetched>>
    /\ UNCHANGED outside_main

\* `processed_count += 1` and the periodic save_progress
CountAndSave(p) ==
    /\ processed_count' = processed_count + 1
    /\ ledger_file' = (IF processed_count' % save_interval = 0 THEN p ELSE ledger_file)

\* the append to completed is reached when `df is not None and len(df) > 0`
\* held and df.to_csv, the statement before it, has returned
RecordsCompletedBeforeWrite(result, written) == result = "data"
RecordsCompleted(result, written) == result = "data" /\ written

\* the ledger after the success branch was entered for address a
Recorded(p, a, result, written) ==
    IF RecordsCompleted(result, written)
    THEN [p EXCEPT !.completed = Append(@, a)]
    ELSE p

\* the fetch gave a non-empty series: write the file, record completed
Main_Success ==
    /\ Processing
    /\ ohlcv_files' = ohlcv_files \cup {addresses[pos]}
    /\ successful' = Append(successful, addresses[pos])
    /\ progress' = Recorded(progress, addresses[pos], "data", TRUE)
    /\ CountAndSave(progress')
    /\ network' = network \cup {addresses[pos]}
    /\ ohlcv_fetched' = ohlcv_fetched \cup {addresses[pos]}
    /\ \E start_ts \in FetchStarts :
          iterations' = Append(iterations,
              Iteration(addresses[pos], LookupOf(start_ts), start_ts, "data", TRUE))
    /\ pos' = pos + 1
    /\ UNCHANGED <<main_args, failed, skipped, already_processed, main_pc>>
    /\ UNCHANGED outside_main

\* the fetch gave None or an empty series: record failed
Main_NoData ==
    /\ Processing
    /\ failed' = Append(failed, addresses[pos])
    /\ progress' = [progress EXCEPT !.failed = Append(@, addresses[pos])]
    /\ CountAndSave(progress')
    /\ network' = network \cup {addresses[pos]}
    /\ ohlcv_fetched' = ohlcv_fetched \cup {addresses[pos]}
    /\ \E start_ts \in FetchStarts :
          iterations' = Append(iterations,
              Iteration(addresses[pos], LookupOf(start_ts), start_ts, "no_data", FALSE))
    /\ pos' = pos + 1
    /\ UNCHANGED <<main_args, ohlcv_files, successful, skipped, already_processed, main_pc>>
    /\ UNCHANGED outside_main

\* (variant without the try/except of the loop body: the exception ends main)
Main_ExceptionAborts ==
    /\ Processing
    /\ main_pc' = "done"
    /\ network' = network \cup {addresses[pos]}
    /\ UNCHANGED <<main_args, ledger_file, ohlcv_files, progress, successful, failed,
                   skipped, already_processed, processed_count, pos, ohlcv_fetched,
                   iterations>>
    /\ UNCHANGED outside_main

\* an exception while processing the address: raised by the creation-time
\* lookup, by the OHLCV fetch, or by the write of the output file after the
\* fetch gave a series; record failed; processed_count is not raised
Main_Exception ==
    /\ Processing
    /\ failed' = Append(failed, addresses[pos])
    /\ network' = network \cup {addresses[pos]}
    /\ \/ /\ ohlcv_fetched' = ohlcv_fetched
          /\ progress' = [progress EXCEPT !.failed = Append(@, addresses[pos])]
          /\ iterations' = Append(iterations,
                Iteration(addresses[pos], "raised", "none", "none", FALSE))
       \/ \E start_ts \in FetchStarts, result \in {"raised", "data"} :
          /\ ohlcv_fetched' = ohlcv_fetched \cup {addresses[pos]}
          /\ progress' = [Recorded(progress, addresses[pos], result, FALSE)
                              EXCEPT !.failed = Append(@, addresses[pos])]
          /\ iterations' = Append(iterations,
                Iteration(addresses[pos], LookupOf(start_ts), start_ts, result, FALSE))
    /\ pos' = pos + 1
    /\ UNCHANGED <<main_args, ledger_file, ohlcv_files, successful, skipped,
                   already_processed, processed_count, main_pc>>
    /\ UNCHANGED outside_main

\* after the loop: the final save_progress
Main_Finish ==
    /\ main_pc = "loop"
    /\ pos > Len(addresses)
    /\ ledger_file' = progress
    /\ main_pc' = "done"
    /\ UNCHANGED <<main_args, ohlcv_files, progress, successful, failed, skipped,
                   already_processed, processed_count, pos, network, ohlcv_fetched,
                   iterations>>
    /\ UNCHANGED outside_main

\* what is on disk for one address when main starts
Marks == [status : {"none", "completed", "failed", "skipped"}, file : BOOLEAN]
Unmarked == [status |-> "none", file |-> FALSE]
LedgerOf(mark) ==
    [completed |-> SeqOfSet({a \in DOMAIN mark : mark[a].status = "completed"}),
     failed    |-> SeqOfSet({a \in DOMAIN mark : mark[a].status = "failed"}),
     skipped   |-> SeqOfSet({a \in DOMAIN mark : mark[a].status = "skipped"})]

\* a batch of 1..NumAddr addresses with at most MaxMarked of them on disk
GeneralBatch ==
    \E n \in 1..NumAddr : \E mark \in [1..n -> Marks] :
        /\ Cardinality({a \in 1..n : mark[a] # Unmarked}) <= MaxMarked
        /\ addresses = [i \in 1..n |-> i]
        /\ ledger_file = LedgerOf(mark)
        /\ ohlcv_files = {a \in 1..n : mark[a].file}

\* the resume scenario: a run without --reset, in multi-resolution mode, over
\* a batch of ResumeBatch addresses, the third of them marked completed in
\* the ledger
ResumeScenario ==
    /\ args_reset = FALSE
    /\ args_retry_failed \in BOOLEAN
    /\ args_skip_missing = FALSE
    /\ args_single_interval = FALSE
    /\ addresses = [i \in 1..ResumeBatch |-> i]
    /\ ledger_file = [EmptyLedger EXCEPT !.completed = <<3>>]
    /\ ohlcv_files = {}

\* main is about to start: nothing processed yet, the other components idle
MainFresh ==
    /\ initial_ledger = ledger_file
    /\ progress = EmptyLedger
    /\ skip_set = {}
    /\ successful = <<>>
    /\ failed = <<>>
    /\ skipped = <<>>
    /\ already_processed = <<>>
    /\ processed_count = 0
    /\ pos = 1
    /\ main_pc = "start"
    /\ network = {}
    /\ ohlcv_fetched = {}
    /\ iterations = <<>>
    /\ max_retries = 0
    /\ initial_wait = DEFAULT_WAIT_TIME
    /\ retry = 0
    /\ wait = DEFAULT_WAIT_TIME
    /\ mr_pc = "idle"
    /\ mr_ret = None
    /\ http_requests = 0
    /\ sleeps = <<>>
    /\ responses = <<>>
    /\ attempt_waits = <<>>
    /\ ErrorFileFresh
    /\ PriceIdle
    /\ CreationsIdle
    /\ LookupIdle
    /\ RaydiumIdle
    /\ SafeIdle
    /\ CollectorIdle
    /\ MoralisIdle
    /\ FetchIdle
    /\ CacheIdle

\* any combination of the flags
AnyFlags ==
    /\ args_reset \in BOOLEAN
    /\ args_retry_failed \in BOOLEAN
    /\ args_skip_missing \in BOOLEAN
    /\ args_single_interval \in BOOLEAN

\* --skip-missing is read in single-interval mode only, so it is left off in
\* multi-resolution mode; the single-interval runs start with nothing on disk
ModeScenario ==
    IF args_single_interval
    THEN ledger_file = EmptyLedger /\ ohlcv_files = {}
    ELSE ~args_skip_missing

InitMain ==
    /\ (AnyFlags /\ GeneralBatch /\ ModeScenario) \/ ResumeScenario
    /\ MainFresh

NextMain ==
    \/ MainStart
    \/ Main_FileExists
    \/ Main_InSkipSet
    \/ Main_SkipNoCreationTime
    \/ Main_Success
    \/ Main_NoData
    \/ Main_Exception
    \/ Main_Finish

SpecMain == InitMain /\ [][NextMain]_vars

\* number of entries of a ledger
Entries(p) == Len(p.completed) + Len(p.failed) + Len(p.skipped)

\* the flush scenario: a fresh run in multi-resolution mode over FlushBatch
\* addresses, none of them on disk, so that what the ledger in memory holds
\* beyond the ledger file is what was recorded since the last save_progress
FlushScenario ==
    /\ args_reset = FALSE
    /\ args_retry_failed = FALSE
    /\ args_skip_missing = FALSE
    /\ args_single_interval = FALSE
    /\ addresses = [i \in 1..FlushBatch |-> i]
    /\ ledger_file = EmptyLedger
    /\ ohlcv_files = {}

InitFlush == FlushScenario /\ MainFresh

\* the exception is raised by the creation-time lookup
Main_LookupRaises ==
    /\ Main_Exception
    /\ iterations'[Len(iterations')].lookup = "raised"

\* the outcomes of one address in the flush scenario: skipped for want of
\* a creation time, an exception, or a series written
NextFlush ==
    \/ MainStart
    \/ Main_SkipNoCreationTime
    \/ Main_Success
    \/ Main_LookupRaises
    \/ Main_Finish

SpecFlush == InitFlush /\ [][NextFlush]_vars

\* =====================================================================
\* fetch_pump_ohlcv.safe_api_call and fetch_multi_resolution_ohlcv
\* =====================================================================

DAY == 24 * HOUR

Min(a, b) == IF a < b THEN a ELSE b

\* the requests of fetch_multi_resolution_ohlcv, in program order
PhaseIds == 1..4

\* the time boundaries
phase1_mid(c) == c + (12 * HOUR)
end_24h(c) == c + DAY
end_8dLate(c) == c + (9 * DAY)
end_8d(c) == c + (8 * DAY)

\* the time conditions of the four requests
Phase1aDue(n, c) == n > c
Phase1bDue(n, c) == n > c /\ n > phase1_mid(c)
Phase2DueInclusive(n, c) == n >= end_24h(c)
Phase2Due(n, c) == n > end_24h(c)
Phase3Due(n, c) == n > end_8d(c)

\* what api.get_ohlcv_history(address, start_ts, end_ts, interval) can give
\* for request p: None, or a series (possibly empty) of records with a ts
\* inside the window, in ascending order; src tells the records of different
\* requests apart
OhlcvSeries(p, s, e) ==
    {[i \in 1..Len(q) |-> [ts |-> q[i], src |-> p]] :
        q \in {SeqOfSet(T) : T \in SUBSET {s, e}}}
OhlcvReturns(p, s, e) == {None} \cup {Some(df) : df \in OhlcvSeries(p, s, e)}

\* safe_api_call when the first `raised` attempts raise and the next one, if
\* there is one, returns value: the result and the arguments of time.sleep
SafeApiCall(raised, value) ==
    [result |-> IF raised > SAFE_MAX_RETRIES THEN None ELSE value,
     sleeps |-> [j \in 1..Min(raised, SAFE_MAX_RETRIES) |-> 2 ^ (j - 1)]]

\* the ways one safe_api_call can go
SafeOutcomes(p, s, e) ==
    {[raised |-> k, call |-> SafeApiCall(k, v)] :
        k \in 0..SAFE_MAX_RETRIES, v \in OhlcvReturns(p, s, e)}
    \cup {[raised |-> SAFE_MAX_RETRIES + 1, call |-> SafeApiCall(SAFE_MAX_RETRIES + 1, None)]}

\* `df is not None and len(df) > 0`
NonEmptyOrNone(r) == r # None
NonEmpty(r) == r # None /\ Len(r[1]) > 0

\* `df['interval'] = tag`
Tagged(df, tag) == [i \in 1..Len(df) |-> [ts |-> df[i].ts, src |-> df[i].src, interval |-> tag]]

\* one request: `phases_attempted += 1`, safe_api_call inside try/except, and
\* for a non-empty result the tag, the append and `phases_succeeded += 1`
\* (variant where a request without data ends the fetching)
FM_AttemptOrAbort(p, s, e, tag, nextpc) ==
    \E out \in SafeOutcomes(p, s, e) :
        /\ phases_attempted' = phases_attempted + 1
        /\ fm_calls' = Append(fm_calls,
               [phase |-> p, start_ts |-> s, end_ts |-> e, interval |-> tag,
                raised |-> out.raised, sleeps |-> out.call.sleeps,
                result |-> out.call.result])
        /\ IF NonEmpty(out.call.result)
             THEN /\ all_dfs' = Append(all_dfs, Tagged(out.call.result[1], tag))
                  /\ phases_succeeded' = phases_succeeded + 1
                  /\ fm_pc' = nextpc
             ELSE /\ UNCHANGED <<all_dfs, phases_succeeded>>
                  /\ fm_pc' = "combine"
        /\ UNCHANGED <<creation_time, now, fm_ret, fm_status>>
        /\ UNCHANGED outside_fetch
FM_Attempt(p, s, e, tag, nextpc) ==
    \E out \in SafeOutcomes(p, s, e) :
        /\ phases_attempted' = phases_attempted + 1
        /\ fm_calls' = Append(fm_calls,
               [phase |-> p, start_ts |-> s, end_ts |-> e, interval |-> tag,
                raised |-> out.raised, sleeps |-> out.call.sleeps,
                result |-> out.call.result])
        /\ IF NonEmpty(out.call.result)
             THEN /\ all_dfs' = Append(all_dfs, Tagged(out.call.result[1], tag))
                  /\ phases_succeeded' = phases_succeeded + 1
             ELSE UNCHANGED <<all_dfs, phases_succeeded>>
        /\ fm_pc' = nextpc
        /\ UNCHANGED <<creation_time, now, fm_ret, fm_status>>
        /\ UNCHANGED outside_fetch

\* the time condition of a request is false: go on without a request
FM_Skip(nextpc) ==
    /\ fm_pc' = nextpc
    /\ UNCHANGED <<creation_time, now, all_dfs, phases_attempted, phases_succeeded,
                   fm_calls, fm_ret, fm_status>>
    /\ UNCHANGED outside_fetch

\* Request 1: hours 0-12 at 1m
FM_Phase1a ==
    /\ fm_pc = "phase1a"
    /\ IF Phase1aDue(now, creation_time)
         THEN FM_Attempt(1, creation_time, Min(phase1_mid(creation_time), now), "1m", "phase1b")
         ELSE FM_Skip("phase1b")

\* Request 2: hours 12-24 at 1m; phase1_end = min(end_24h, now)
FM_Phase1b ==
    /\ fm_pc = "phase1b"
    /\ IF Phase1bDue(now, creation_time)
         THEN FM_Attempt(2, phase1_mid(creation_time), Min(end_24h(creation_time), now),
                         "1m", "phase2")
         ELSE FM_Skip("phase2")

\* Phase 2: days 1-8 at 1H; phase2_end = min(end_8d, now)
FM_Phase2 ==
    /\ fm_pc = "phase2"
    /\ IF Phase2Due(now, creation_time)
         THEN FM_Attempt(3, end_24h(creation_time), Min(end_8d(creation_time), now),
                         "1H", "phase3")
         ELSE FM_Skip("phase3")

\* Phase 3: after day 8 at 12H
FM_Phase3 ==
    /\ fm_pc = "phase3"
    /\ IF Phase3Due(now, creation_time)
         THEN FM_Attempt(4, end_8d(creation_time), now, "12H", "combine")
         ELSE FM_Skip("combine")

\* pd.concat(all_dfs, ignore_index=True)
RECURSIVE pd_concat(_)
pd_concat(dfs) == IF dfs = <<>> THEN <<>> ELSE Head(dfs) \o pd_concat(Tail(dfs))

\* the ts values that more than one record of df carries
TiedTs(df) == {df[i].ts : i \in {k \in 1..Len(df) : \E j \in 1..Len(df) : j # k /\ df[j].ts = df[k].ts}}

\* sort_values('ts'): the default sort (kind='quicksort') is not stable, so
\* records with the same ts come out in either order: in the order of the
\* concatenation, or for the ts in swapped the other way round
sort_values(df, swapped) ==
    SortSeq(df, LAMBDA x, y :
        x.ts < y.ts \/ (x.ts = y.ts /\ (IF x.ts \in swapped THEN x.src > y.src
                                                              ELSE x.src < y.src)))

\* drop_duplicates(subset=['ts'], keep='first')
RECURSIVE drop_duplicates(_)
drop_duplicates(df) ==
    IF df = <<>> THEN <<>>
    ELSE LET init == SubSeq(df, 1, Len(df) - 1)
             last == df[Len(df)]
         IN  IF \E i \in 1..Len(init) : init[i].ts = last.ts
             THEN drop_duplicates(init)
             ELSE Append(drop_duplicates(init), last)

\* the status string and the return
FM_Combine ==
    /\ fm_pc = "combine"
    /\ fm_status' = <<phases_succeeded, phases_attempted>>
    /\ IF all_dfs = <<>>
         THEN fm_ret' = None
         ELSE \E swapped \in SUBSET TiedTs(pd_concat(all_dfs)) :
                 fm_ret' = Some(drop_duplicates(
                                  sort_values(pd_concat(all_dfs), swapped)))
    /\ fm_pc' = "done"
    /\ UNCHANGED <<creation_time, now, all_dfs, phases_attempted, phases_succeeded, fm_calls>>
    /\ UNCHANGED outside_fetch

\* creation times, and ages of the token at the call (now - creation_time)
CreationTimes == {1700000000}
Ages == {0 - HOUR, 0, 1, 12 * HOUR, 12 * HOUR + 1, DAY, DAY + 1,
         8 * DAY, 8 * DAY + 1, 10 * DAY}

InitFetch ==
    /\ creation_time \in CreationTimes
    /\ now \in {creation_time + age : age \in Ages}
    /\ all_dfs = <<>>
    /\ phases_attempted = 0
    /\ phases_succeeded = 0
    /\ fm_pc = "phase1a"
    /\ fm_calls = <<>>
    /\ fm_ret = None
    /\ fm_status = <<0, 0>>
    /\ max_retries = 0
    /\ initial_wait = DEFAULT_WAIT_TIME
    /\ retry = 0
    /\ wait = DEFAULT_WAIT_TIME
    /\ mr_pc = "idle"
    /\ mr_ret = None
    /\ http_requests = 0
    /\ sleeps = <<>>
    /\ responses = <<>>
    /\ attempt_waits = <<>>
    /\ ErrorFileFresh
    /\ PriceIdle
    /\ CreationsIdle
    /\ LookupIdle
    /\ RaydiumIdle
    /\ SafeIdle
    /\ CollectorIdle
    /\ MoralisIdle
    /\ MainIdle
    /\ CacheIdle

NextFetch ==
    \/ FM_Phase1a
    \/ FM_Phase1b
    \/ FM_Phase2
    \/ FM_Phase3
    \/ FM_Combine

SpecFetch == InitFetch /\ [][NextFetch]_vars

\* =====================================================================
\* BirdeyeAPI.get_token_metadata and get_token_security_details
\* =====================================================================

\* A JSON object is a sequence of <<path, atom>> entries in key order; the
\* path of an entry is the sequence of the keys that lead to it, so that an
\* entry of a nested object has a path longer than one.  A key is a sequence
\* of name parts: the key "lockInfo_amount" is <<"lockInfo", "amount">>.
Int_(n) == [t |-> "int", v |-> n]
Str_(n) == [t |-> "str", v |-> n]
Null == [t |-> "null", v |-> 0]
NaN == [t |-> "nan", v |-> 0]
EmptyCell == [t |-> "empty", v |-> 0]

\* the `data` objects the API can answer with: flat, with a nested object,
\* with a null; v is the value of a field, which changes from one request
\* to the next
FlatData(v) == << << << <<"creationTime">> >>, Int_(v) >> >>
NestedData(v) == << << << <<"creationTime">> >>, Int_(v) >>,
                   << << <<"lockInfo">>, <<"amount">> >>, Int_(1) >> >>
NullData(v) == << << << <<"creationTime">> >>, Int_(v) >>,
                 << << <<"lockInfo">> >>, Null >> >>
DataObjects(v) == {FlatData(v), NestedData(v), NullData(v)}

\* equality of two Python dicts: the same keys with the same values,
\* whatever the order; a NaN is equal to nothing
DictEq(x, y) ==
    /\ Range(x) = Range(y)
    /\ \A e \in Range(x) : e[2] # NaN

\* `security_data['address'] = address`
WithAddress(data, address) == Append(data, << << <<"address">> >>, Str_(address) >>)

\* the keys of a path joined by the separator
RECURSIVE JoinKeys(_)
JoinKeys(path) == IF path = <<>> THEN <<>> ELSE Head(path) \o JoinKeys(Tail(path))

\* _flatten_dict: every entry gets the one key made of the keys of its path
_flatten_dict(data) == [i \in 1..Len(data) |-> << <<JoinKeys(data[i][1])>>, data[i][2] >>]

\* the columns and the cells of pd.DataFrame([flattened_data]) as to_csv
\* writes them: None is written as an empty cell
Columns(flat) == [i \in 1..Len(flat) |-> flat[i][1][1]]
ToCell(atom) == IF atom.t \in {"null", "nan"} THEN EmptyCell ELSE atom
Cells(flat) == [i \in 1..Len(flat) |-> ToCell(flat[i][2])]

\* json.dump into the file, json.load from it
JsonDump(data) == [st |-> "json", doc |-> data]
JsonLoad(file) == file.doc
TornFile == [st |-> "torn", doc |-> <<>>]
JsonReadable(file) == file.st = "json"

\* data/security_details.csv: a header line and rows of cells; torn when the
\* last write stopped before its end
\* pd.read_csv raises on a file without header line and on a row with more
\* fields than the header
CsvReadable(csv) ==
    /\ csv.exists
    /\ csv.header # <<>>
    /\ \A i \in 1..Len(csv.rows) : Len(csv.rows[i]) <= Len(csv.header)

\* pd.read_csv: the value of column k of row r; an empty or missing cell
\* reads as NaN
CellAt(csv, r, k) ==
    IF k > Len(csv.rows[r]) \/ csv.rows[r][k] = EmptyCell THEN NaN ELSE csv.rows[r][k]

\* the index of the column 'address', 0 when there is none
AddressColumn(csv) ==
    IF \E k \in 1..Len(csv.header) : csv.header[k] = <<"address">>
    THEN CHOOSE k \in 1..Len(csv.header) : csv.header[k] = <<"address">>
    ELSE 0

\* df[df['address'] == address]: the indexes of the matching rows
MatchingRows(csv, address) ==
    {r \in 1..Len(csv.rows) : CellAt(csv, r, AddressColumn(csv)) = Str_(address)}

\* existing.iloc[0].to_dict()
RowDict(csv, r) ==
    [k \in 1..Len(csv.header) |-> << <<csv.header[k]>>, CellAt(csv, r, k) >>]

\* `if not force_refresh and Path(...).exists()`
UseCacheInverted(force_refresh, exists) == force_refresh /\ exists
UseCache(force_refresh, exists) == ~force_refresh /\ exists

\* a new call may begin
CanCall == cache_pc = "idle" /\ cache_begun < MaxCacheCalls

\* the record of a call of fn that begins now
Call(fn, address, force_refresh, requests, fetched, ret) ==
    [fn |-> fn, seq |-> cache_begun + 1, address |-> address,
     force_refresh |-> force_refresh, requests |-> requests, fetched |-> fetched, ret |-> ret, saved |-> FALSE,
     md_before |-> metadata_files[address], csv_before |-> security_csv,
     md_after |-> metadata_files[address], csv_after |-> security_csv]

\* the call returns: it is logged with the files as they are on return
Return(call, saved) ==
    /\ cache_log' = Append(cache_log,
           [call EXCEPT !.saved = saved,
                        !.md_after = metadata_files'[call.address],
                        !.csv_after = security_csv'])
    /\ cache_pc' = "idle"
    /\ cache_call' = NoCall
    /\ pending_csv' = NoCsvFile

\* get_token_metadata answers from the file
MetadataCached(address, force_refresh) ==
    /\ UseCache(force_refresh, metadata_files[address].st # "absent")
    /\ JsonReadable(metadata_files[address])

MD_CacheHit(address, force_refresh) ==
    /\ CanCall
    /\ MetadataCached(address, force_refresh)
    /\ cache_begun' = cache_begun + 1
    /\ UNCHANGED <<metadata_files, security_csv>>
    /\ Return(Call("get_token_metadata", address, force_refresh, 0, None,
                   Some(JsonLoad(metadata_files[address]))), FALSE)
    /\ UNCHANGED outside_cache

\* as MD_FetchFails, in a function that opened the file before the request
MD_FetchFailsTruncating(address, force_refresh) ==
    /\ CanCall
    /\ ~MetadataCached(address, force_refresh)
    /\ cache_begun' = cache_begun + 1
    /\ metadata_files' = [metadata_files EXCEPT ![address] = TornFile]
    /\ UNCHANGED security_csv
    /\ Return(Call("get_token_metadata", address, force_refresh, 1, None, None), FALSE)
    /\ UNCHANGED outside_cache

\* _make_request gives None, or a response without 'data': return None
MD_FetchFails(address, force_refresh) ==
    /\ CanCall
    /\ ~MetadataCached(address, force_refresh)
    /\ cache_begun' = cache_begun + 1
    /\ UNCHANGED <<metadata_files, security_csv>>
    /\ Return(Call("get_token_metadata", address, force_refresh, 1, None, None), FALSE)
    /\ UNCHANGED outside_cache

\* the response has 'data' but open(metadata_file, 'w') raises: the warning
\* is printed and the metadata returned
MD_FetchOpenFails(address, force_refresh, data) ==
    /\ CanCall
    /\ ~MetadataCached(address, force_refresh)
    /\ cache_begun' = cache_begun + 1
    /\ UNCHANGED <<metadata_files, security_csv>>
    /\ Return(Call("get_token_metadata", address, force_refresh, 1, Some(data),
                   Some(data)), FALSE)
    /\ UNCHANGED outside_cache

\* the response has 'data' and open(metadata_file, 'w') has truncated the file
MD_FetchOpen(address, force_refresh, data) ==
    /\ CanCall
    /\ ~MetadataCached(address, force_refresh)
    /\ cache_begun' = cache_begun + 1
    /\ cache_call' = Call("get_token_metadata", address, force_refresh, 1, Some(data),
                          Some(data))
    /\ metadata_files' = [metadata_files EXCEPT ![address] = TornFile]
    /\ cache_pc' = "md_write"
    /\ UNCHANGED <<security_csv, pending_csv, cache_log>>
    /\ UNCHANGED outside_cache

\* json.dump and the close of the file succeed; the metadata is returned
MD_WriteDone ==
    /\ cache_pc = "md_write"
    /\ metadata_files' = [metadata_files EXCEPT
                              ![cache_call.address] = JsonDump(cache_call.fetched[1])]
    /\ UNCHANGED <<security_csv, cache_begun>>
    /\ Return(cache_call, TRUE)
    /\ UNCHANGED outside_cache

\* json.dump raises: the warning is printed and the metadata returned
MD_WriteFails ==
    /\ cache_pc = "md_write"
    /\ UNCHANGED <<metadata_files, security_csv, cache_begun>>
    /\ Return(cache_call, FALSE)
    /\ UNCHANGED outside_cache

\* the process stops during a write
Crash ==
    /\ cache_pc \in {"md_write", "sec_write"}
    /\ cache_pc' = "crashed"
    /\ UNCHANGED <<metadata_files, security_csv, cache_call, pending_csv, cache_log,
                   cache_begun>>
    /\ UNCHANGED outside_cache

\* a new process starts on the files the stopped one left
Restart ==
    /\ cache_pc = "crashed"
    /\ cache_pc' = "idle"
    /\ cache_call' = NoCall
    /\ pending_csv' = NoCsvFile
    /\ UNCHANGED <<metadata_files, security_csv, cache_log, cache_begun>>
    /\ UNCHANGED outside_cache

\* get_token_security_details answers from the CSV
SecurityCached(address, force_refresh) ==
    /\ UseCache(force_refresh, security_csv.exists)
    /\ CsvReadable(security_csv)
    /\ AddressColumn(security_csv) # 0
    /\ MatchingRows(security_csv, address) # {}

FirstMatch(csv, address) ==
    CHOOSE r \in MatchingRows(csv, address) : \A q \in MatchingRows(csv, address) : r <= q

SEC_CacheHit(address, force_refresh) ==
    /\ CanCall
    /\ SecurityCached(address, force_refresh)
    /\ cache_begun' = cache_begun + 1
    /\ UNCHANGED <<metadata_files, security_csv>>
    /\ Return(Call("get_token_security_details", address, force_refresh, 0, None,
                   Some(RowDict(security_csv, FirstMatch(security_csv, address)))), FALSE)
    /\ UNCHANGED outside_cache

\* _make_request gives None, or a response without 'data': return None
SEC_FetchFails(address, force_refresh) ==
    /\ CanCall
    /\ ~SecurityCached(address, force_refresh)
    /\ cache_begun' = cache_begun + 1
    /\ UNCHANGED <<metadata_files, security_csv>>
    /\ Return(Call("get_token_security_details", address, force_refresh, 1, None, None),
              FALSE)
    /\ UNCHANGED outside_cache

\* the CSV as df.to_csv(security_csv, index=False) writes the frame read
\* from csv, with the rows in changed set to the given cells
Rewritten(csv, changed, cells) ==
    [exists |-> TRUE, header |-> csv.header, torn |-> FALSE,
     rows |-> [r \in 1..Len(csv.rows) |->
                 IF r \in changed THEN cells
                 ELSE [k \in 1..Len(csv.header) |-> ToCell(CellAt(csv, r, k))]]]

\* `df.loc[df['address'] == address] = pd.Series(flattened_data)`: with a
\* row indexer alone the Series is aligned on the row labels, which its
\* index (the column names) does not contain: every cell of the matching
\* rows becomes NaN
UpdatedRow(csv) == [k \in 1..Len(csv.header) |-> EmptyCell]

\* to_csv(mode='a', header=False): the cells go after the last line, or onto
\* it when it was left without its end
Appended(csv, cells) ==
    [csv EXCEPT !.torn = FALSE,
                !.rows = IF csv.torn /\ csv.rows # <<>>
                         THEN [csv.rows EXCEPT ![Len(csv.rows)] = @ \o cells]
                         ELSE Append(csv.rows, cells)]

\* the file when the write has been opened and not finished
TornCsv(csv, mode, cells) ==
    IF mode = "a"
    THEN [Appended(csv, SubSeq(cells, 1, Len(cells) - 1)) EXCEPT !.torn = TRUE]
    ELSE [exists |-> TRUE, header |-> <<>>, rows |-> <<>>, torn |-> TRUE]

\* a `try` block that appends whenever the file can be read
WriteModeAppend(csv, address) ==
    IF ~csv.exists THEN "create"
    ELSE IF ~CsvReadable(csv) \/ AddressColumn(csv) = 0 THEN "none"
    ELSE "a"

\* which write the `try` block makes: "create", "a" (append), "update", or
\* "none" when pd.read_csv or df['address'] raises
WriteMode(csv, address) ==
    IF ~csv.exists THEN "create"
    ELSE IF ~CsvReadable(csv) \/ AddressColumn(csv) = 0 THEN "none"
    ELSE IF MatchingRows(csv, address) = {} THEN "a"
    ELSE "update"

\* the file after the write
Written(csv, address, flat) ==
    CASE WriteMode(csv, address) = "create" ->
            [exists |-> TRUE, header |-> Columns(flat), rows |-> <<Cells(flat)>>,
             torn |-> FALSE]
      [] WriteMode(csv, address) = "a" -> Appended(csv, Cells(flat))
      [] WriteMode(csv, address) = "update" ->
            Rewritten(csv, MatchingRows(csv, address), UpdatedRow(csv))
      [] OTHER -> csv

\* the response has 'data'; nothing is written because reading the CSV or
\* opening it for writing raises: the warning is printed, the data returned
SEC_FetchNoSave(address, force_refresh, data) ==
    /\ CanCall
    /\ ~SecurityCached(address, force_refresh)
    /\ cache_begun' = cache_begun + 1
    /\ UNCHANGED <<metadata_files, security_csv>>
    /\ Return(Call("get_token_security_details", address, force_refresh, 1,
                   Some(data), Some(WithAddress(data, address))), FALSE)
    /\ UNCHANGED outside_cache

\* the response has 'data' and the write to the CSV has begun
SEC_FetchOpen(address, force_refresh, data) ==
    /\ CanCall
    /\ ~SecurityCached(address, force_refresh)
    /\ WriteMode(security_csv, address) # "none"
    /\ cache_begun' = cache_begun + 1
    /\ cache_call' = Call("get_token_security_details", address, force_refresh, 1,
                          Some(data), Some(WithAddress(data, address)))
    /\ LET flat == _flatten_dict(WithAddress(data, address))
       IN  /\ pending_csv' = Written(security_csv, address, flat)
           /\ security_csv' = TornCsv(security_csv,
                                      WriteMode(security_csv, address), Cells(flat))
    /\ cache_pc' = "sec_write"
    /\ UNCHANGED <<metadata_files, cache_log>>
    /\ UNCHANGED outside_cache

\* the write ends; the data is returned
SEC_WriteDone ==
    /\ cache_pc = "sec_write"
    /\ security_csv' = pending_csv
    /\ UNCHANGED <<metadata_files, cache_begun>>
    /\ Return(cache_call, TRUE)
    /\ UNCHANGED outside_cache

\* the write raises: the warning is printed, the data returned
SEC_WriteFails ==
    /\ cache_pc = "sec_write"
    /\ UNCHANGED <<metadata_files, security_csv, cache_begun>>
    /\ Return(cache_call, FALSE)
    /\ UNCHANGED outside_cache

\* the cache files when the calls begin: none, or those that earlier calls
\* for address 1 have written
EmptyStore ==
    /\ metadata_files = [a \in CacheAddrs |-> NoFile]
    /\ security_csv = NoCsvFile
WarmStore ==
    LET data == NullData(0)
    IN  /\ metadata_files = [a \in CacheAddrs |-> IF a = 1 THEN JsonDump(data) ELSE NoFile]
        /\ security_csv = Written(NoCsvFile, 1, _flatten_dict(WithAddress(data, 1)))

InitCache ==
    /\ EmptyStore \/ WarmStore
    /\ cache_pc = "idle"
    /\ cache_call = NoCall
    /\ pending_csv = NoCsvFile
    /\ cache_log = <<>>
    /\ cache_begun = 0
    /\ max_retries = 0
    /\ initial_wait = DEFAULT_WAIT_TIME
    /\ retry = 0
    /\ wait = DEFAULT_WAIT_TIME
    /\ mr_pc = "idle"
    /\ mr_ret = None
    /\ http_requests = 0
    /\ sleeps = <<>>
    /\ responses = <<>>
    /\ attempt_waits = <<>>
    /\ ErrorFileFresh
    /\ PriceIdle
    /\ CreationsIdle
    /\ LookupIdle
    /\ RaydiumIdle
    /\ SafeIdle
    /\ CollectorIdle
    /\ MoralisIdle
    /\ MainIdle
    /\ FetchIdle

NextCache ==
    \/ \E address \in CacheAddrs, force_refresh \in BOOLEAN :
          \/ MD_CacheHit(address, force_refresh)
          \/ MD_FetchFails(address, force_refresh)
          \/ SEC_CacheHit(address, force_refresh)
          \/ SEC_FetchFails(address, force_refresh)
          \/ \E data \in DataObjects(cache_begun + 1) :
                \/ MD_FetchOpenFails(address, force_refresh, data)
                \/ MD_FetchOpen(address, force_refresh, data)
                \/ SEC_FetchNoSave(address, force_refresh, data)
                \/ SEC_FetchOpen(address, force_refresh, data)
    \/ MD_WriteDone
    \/ MD_WriteFails
    \/ SEC_WriteDone
    \/ SEC_WriteFails
    \/ Crash
    \/ Restart

SpecCache == InitCache /\ [][NextCache]_vars

\* =====================================================================
\* BirdeyeAPI._get_token_creation_time
\* =====================================================================

\* the timestamps the three sources hold for the address
T_SECURITY == 1700000001
T_METADATA == 1700000002
T_CREATION_INFO == 1700000003

\* Python truthiness of a value that is there: None, NaN aside, 0 and ""
\* are false
IsTruthy(v) == (v.kind = "int" /\ v.n # 0) \/ v.kind \in {"str", "bad"}

\* `pd.notna(creation_time)`; a missing column gives None
NotNa(v) == v.kind \notin {"null", "missing"}

\* int(v): the number, or None for a ValueError / TypeError
ToInt(v) == IF v.kind \in {"int", "str"} THEN Some(v.n) ELSE None

\* the function returns r
LK_Return(r) ==
    /\ lk_ret' = r
    /\ lk_pc' = "done"

\* first source: the first row of the address in security_details.csv; the
\* value is used when `pd.notna(creation_time) and creation_time`; any
\* exception is caught and the next source is tried
LK_Security ==
    /\ lk_pc = "security"
    /\ IF NotNa(lk_security) /\ IsTruthy(lk_security) /\ ToInt(lk_security) # None
         THEN LK_Return(ToInt(lk_security))
         ELSE lk_pc' = "metadata" /\ lk_ret' = lk_ret
    /\ UNCHANGED <<lk_security, lk_metadata, lk_creation_info>>
    /\ UNCHANGED outside_lookup

\* second source: metadata['meme_info']['creation_time'] when both keys are
\* there: `return int(creation_time) if creation_time else None`; a
\* TypeError (meme_info is null) or ValueError is caught and the next source
\* is tried
LK_Metadata ==
    /\ lk_pc = "metadata"
    /\ IF lk_metadata.meta = "value"
         THEN IF IsTruthy(lk_metadata.v)
              THEN IF ToInt(lk_metadata.v) # None
                   THEN LK_Return(ToInt(lk_metadata.v))
                   ELSE lk_pc' = "creation_info" /\ lk_ret' = lk_ret
              ELSE LK_Return(None)
         ELSE lk_pc' = "creation_info" /\ lk_ret' = lk_ret
    /\ UNCHANGED <<lk_security, lk_metadata, lk_creation_info>>
    /\ UNCHANGED outside_lookup

\* third source: int(blockUnixTime) of the address's first row in
\* token_creation_info.csv; an exception (int of NaN or of a string that is
\* no number) is caught and None returned
LK_CreationInfo ==
    /\ lk_pc = "creation_info"
    /\ IF lk_creation_info.kind # "missing"
         THEN LK_Return(ToInt(lk_creation_info))
         ELSE LK_Return(None)
    /\ UNCHANGED <<lk_security, lk_metadata, lk_creation_info>>
    /\ UNCHANGED outside_lookup

\* what the three sources can hold for the address
SecurityValues ==
    {Missing, Value("null", 0), Value("int", 0), Value("int", T_SECURITY),
     Value("bad", 0)}
MetadataValues ==
    {[meta |-> m, v |-> Missing] :
        m \in {"none", "no_meme_info", "meme_info_null", "no_creation_time"}}
    \cup {[meta |-> "value", v |-> v] :
            v \in {Value("null", 0), Value("int", 0), Value("empty", 0),
                   Value("int", T_METADATA), Value("str", T_METADATA), Value("bad", 0)}}
CreationInfoValues ==
    {Missing, Value("null", 0), Value("int", T_CREATION_INFO), Value("bad", 0)}

InitLookup ==
    /\ lk_security \in SecurityValues
    /\ lk_metadata \in MetadataValues
    /\ lk_creation_info \in CreationInfoValues
    /\ lk_pc = "security"
    /\ lk_ret = None
    /\ InvokerIdle
    /\ CollectorIdle
    /\ MoralisIdle
    /\ PriceIdle
    /\ CreationsIdle
    /\ MainIdle
    /\ FetchIdle
    /\ CacheIdle
    /\ RaydiumIdle
    /\ SafeIdle

NextLookup ==
    \/ LK_Security
    \/ LK_Metadata
    \/ LK_CreationInfo

SpecLookup == InitLookup /\ [][NextLookup]_vars

\* =====================================================================
\* Properties of _make_request
\* =====================================================================
RECURSIVE Pow2(_)
Pow2(n) == IF n = 0 THEN 1 ELSE 2 * Pow2(n - 1)

\* transport exception, undecodable 200, or a status other than 200, 401, 429
Transient(r) ==
    \/ r.status = NoResponse
    \/ r.status = 200 /\ ~r.decodable
    \/ r.status \notin {NoResponse, 200, 401, 429}
Retryable(r) == Transient(r) \/ r.status = 429
Success(r) == r.status = 200 /\ r.decodable

Last(q) == q[Len(q)]

\* the call has returned after k transient failures followed by a success
TransientThenSuccess ==
    /\ mr_pc = "done"
    /\ Len(responses) >= 1
    /\ Success(Last(responses))
    /\ \A i \in 1..(Len(responses) - 1) : Transient(responses[i])

\* C1: after k transient failures and a decodable 200 on attempt k+1 the call
\* returns that payload, has issued exactly k+1 requests, and the sleep before
\* the i-th retry was W * 2^(i-1).
C1_RetryThenSuccess ==
    TransientThenSuccess =>
        LET k == Len(responses) - 1 IN
        /\ mr_ret = Some(Last(responses).json)
        /\ http_requests = k + 1
        /\ Len(sleeps) = k
        /\ \A i \in 1..k : sleeps[i] = initial_wait * Pow2(i - 1)

C1_Witness ==
    /\ TransientThenSuccess
    /\ Len(responses) = 3
    /\ max_retries = 3
    /\ initial_wait = DEFAULT_WAIT_TIME
    /\ sleeps = <<5, 10>>
    /\ mr_ret = Some(PageJson(0, 1))

\* C2: a 401 is the last attempt of the call: the call returns None at once,
\* without sleeping after it, whatever retry budget is left; a 401 on the
\* first attempt gives exactly one request.
C2_NoRetryOn401 ==
    \A i \in 1..Len(responses) :
        responses[i].status = 401 =>
            /\ i = Len(responses)
            /\ http_requests = i
            /\ mr_pc = "done"
            /\ mr_ret = None
            /\ Len(sleeps) = i - 1

C2_Witness ==
    /\ Len(responses) = 2
    /\ responses[2].status = 401
    /\ retry < max_retries
    /\ mr_pc = "done"
    /\ mr_ret = None

\* C3: every step of the call issues one request, never more than
\* max_retries + 1 are issued and the call has returned once that many are
\* issued; when every attempt was a retryable failure the call has issued
\* exactly max_retries + 1 requests and returns None.
C3_Bound ==
    /\ http_requests <= max_retries + 1
    /\ http_requests = max_retries + 1 => mr_pc = "done"
    /\ (mr_pc = "done" /\ \A i \in 1..Len(responses) : Retryable(responses[i])) =>
          /\ http_requests = max_retries + 1
          /\ mr_ret = None
C3_Terminates ==
    /\ []C3_Bound
    /\ [][http_requests' = http_requests + 1]_vars

C3_Witness ==
    /\ mr_pc = "done"
    /\ max_retries = 2
    /\ http_requests = 3
    /\ mr_ret = None
    /\ responses[1].status = 429
    /\ responses[2].status = NoResponse
    /\ responses[3].status = 500

\* C4 as stated: after a 429 the sleep is 3 times the current wait, and every
\* later sleep of the same call is exactly twice the sleep before it.
C4_Original ==
    \A i \in 1..Len(sleeps) :
        responses[i].status = 429 =>
            /\ sleeps[i] = 3 * attempt_waits[i]
            /\ \A j \in (i + 1)..Len(sleeps) : sleeps[j] = 2 * sleeps[j - 1]

\* C4 amended: after a 429 the sleep is 3 times the current wait; a later
\* sleep is twice the sleep before it when it follows a failure that is not a
\* 429, and six times the sleep before it when it follows another 429.
C4_RateLimitBackoff ==
    \A i \in 1..Len(sleeps) :
        responses[i].status = 429 =>
            /\ sleeps[i] = 3 * attempt_waits[i]
            /\ \A j \in (i + 1)..Len(sleeps) :
                  sleeps[j] = (IF responses[j].status = 429 THEN 6 ELSE 2) * sleeps[j - 1]

C4_Witness ==
    /\ Len(sleeps) = 3
    /\ responses[1].status = 429
    /\ responses[2].status = 500
    /\ responses[3].status = 429
    /\ sleeps = <<3 * initial_wait, 6 * initial_wait, 36 * initial_wait>>

\* =====================================================================
\* Properties of get_token_trade_history
\* =====================================================================

\* a page request that gave a document with data.items
GoodPage(r) == r # None /\ r[1].has_items

\* the records of the pages fetched, in request order
RECURSIVE Concat(_)
Concat(ps) ==
    IF ps = <<>> THEN <<>>
    ELSE Concat(SubSeq(ps, 1, Len(ps) - 1)) \o
         (IF GoodPage(Last(ps)) THEN Last(ps)[1].items ELSE <<>>)

\* the server holds pages of sizes [L, L, L, k] with 0 < k < L, there is no
\* cap, and every page request so far was answered with its page
FourPageServer ==
    /\ max_total_records = None
    /\ Len(pages) = 4
    /\ \A i \in 1..3 : pages[i] = limit_per_request
    /\ 0 < pages[4] /\ pages[4] < limit_per_request
    /\ \A i \in 1..Len(fetched_pages) : GoodPage(fetched_pages[i])

\* C5: against pages of sizes [L, L, L, k], 0 < k < L, with no cap, the
\* collector issues exactly 4 page requests and returns the 3L + k records.
C5_FourPages ==
    (th_pc = "done" /\ FourPageServer) =>
        /\ page_requests = 4
        /\ th_ret # None
        /\ Len(th_ret[1]) = 3 * limit_per_request + pages[4]
        /\ th_ret[1] = [j \in 1..(3 * limit_per_request + pages[4]) |-> j - 1]

C5_Witness ==
    /\ th_pc = "done"
    /\ FourPageServer
    /\ limit_per_request = 2
    /\ page_requests = 4
    /\ Len(th_ret[1]) = 7

\* the first two pages of the server are full and were both delivered
TwoFullPages ==
    /\ Len(pages) >= 2
    /\ pages[1] = limit_per_request /\ pages[2] = limit_per_request
    /\ \A i \in 1..Len(fetched_pages) : GoodPage(fetched_pages[i])

\* C6: with max_total_records = M >= 1 the result holds at most M records and
\* is the first M records of the concatenation of the pages fetched; no page
\* request is issued once M records are accumulated; for L < M < 2L against
\* full pages there are exactly 2 page requests and exactly M records.
C6_Cap ==
    (max_total_records # None /\ max_total_records[1] >= 1) =>
        LET m == max_total_records[1] IN
        /\ th_ret # None =>
              /\ Len(th_ret[1]) <= m
              /\ th_ret[1] = Truncate(Concat(fetched_pages), m)
        /\ th_pc \in {"loop", "await"} => Len(Concat(fetched_pages)) < m
        /\ ( /\ th_pc = "done"
             /\ limit_per_request < m /\ m < 2 * limit_per_request
             /\ TwoFullPages ) =>
              /\ page_requests = 2
              /\ th_ret # None
              /\ Len(th_ret[1]) = m

C6_Witness ==
    /\ th_pc = "done"
    /\ limit_per_request = 2
    /\ max_total_records = Some(3)
    /\ TwoFullPages
    /\ Len(pages) >= 3 /\ pages[3] > 0
    /\ page_requests = 2
    /\ th_ret = Some(<<0, 1, 2>>)

\* C7: a page request for which the invoker gave no result, or a document
\* without data.items, is the last one: the collector has stopped, and it
\* returns the records of the earlier pages if there are any, None otherwise.
C7_FailedPageStops ==
    \A i \in 1..Len(fetched_pages) :
        ~GoodPage(fetched_pages[i]) =>
            /\ i = Len(fetched_pages)
            /\ page_requests = i
            /\ th_pc = "done"
            /\ th_ret = (IF Concat(SubSeq(fetched_pages, 1, i - 1)) # <<>>
                         THEN Some(Concat(SubSeq(fetched_pages, 1, i - 1)))
                         ELSE None)

C7_Witness ==
    /\ th_pc = "done"
    /\ Len(fetched_pages) = 3
    /\ fetched_pages[3] = None
    /\ limit_per_request = 2
    /\ th_ret = Some(<<0, 1, 2, 3>>)

\* =====================================================================
\* Properties of moralis get_pairs / get_historical_prices
\* =====================================================================

\* the records of the pages received, each page once, in request order
RECURSIVE MoralisConcat(_)
MoralisConcat(lg) ==
    IF lg = <<>> THEN <<>>
    ELSE MoralisConcat(SubSeq(lg, 1, Len(lg) - 1)) \o Last(lg).records

\* a response that ends pagination: a page without cursor or without records
FinalPage(r) == r.ok /\ (r.cursor = None \/ r.records = <<>>)

\* C8: a response without cursor, or without records, is the last request of
\* the function; the records accumulated are those of the pages fetched, each
\* page once, and they are what the function returns.
C8_PaginationComplete ==
    /\ \A i \in 1..Len(m_log) : FinalPage(m_log[i]) => i = Len(m_log)
    /\ Range(all_results) = Range(MoralisConcat(m_log))
    /\ \A i, j \in 1..Len(all_results) : all_results[i] = all_results[j] => i = j
    /\ (m_pc = "returned" /\ m_log # <<>> /\ FinalPage(Last(m_log))) =>
           m_ret = MoralisFinish(MoralisConcat(m_log))

\* C9: when the 429 retries are exhausted on a page after records of earlier
\* pages were accumulated, the function returns those records.
C9_PartialOn429 ==
    ( /\ m_pc = "returned"
      /\ m_log # <<>>
      /\ Last(m_log).status = 429
      /\ all_results # <<>> ) =>
        m_ret = MoralisFinish(all_results)

\* =====================================================================
\* Properties of fetch_pump_ohlcv.main
\* =====================================================================

\* C10: on resume (no --reset) an address of the ledger's completed or
\* skipped list never reaches the network; an address of failed reaches it
\* only with --retry-failed, and then failed is emptied before the first
\* address is processed, so failed holds only addresses that failed in this
\* run; in the batch of 5 with entity 3 marked completed exactly 1, 2, 4, 5
\* reach the network.
C10_Resume ==
    ~args_reset =>
        /\ \A a \in network \cup ohlcv_fetched :
              /\ a \notin Range(initial_ledger.completed)
              /\ a \notin Range(initial_ledger.skipped)
              /\ a \in Range(initial_ledger.failed) => args_retry_failed
        /\ (args_retry_failed /\ main_pc # "start") =>
              /\ pos = 1 => progress.failed = <<>>
              /\ progress.failed = failed
              /\ Range(progress.failed) \subseteq network
        /\ ( /\ main_pc = "done"
             /\ Len(addresses) = 5
             /\ initial_ledger = [EmptyLedger EXCEPT !.completed = <<3>>]
             /\ ohlcv_files \cap {3} = {} ) =>
              network = {1, 2, 4, 5}

C10_Witness ==
    /\ ~args_reset
    /\ args_retry_failed
    /\ main_pc = "done"
    /\ Len(addresses) = 5
    /\ initial_ledger = [EmptyLedger EXCEPT !.completed = <<3>>]
    /\ network = {1, 2, 4, 5}
    /\ ohlcv_fetched = {1, 2, 4}
    /\ already_processed = <<3>>
    /\ progress.failed = <<4>>

\* =====================================================================
\* Properties of the ledger flush and of the batch loop
\* =====================================================================

\* ledger entries recorded in memory since the last save_progress, in a run
\* that started from an empty ledger
Unsaved == Entries(progress) - Entries(ledger_file)

\* C11: with flush interval N = save_interval = 10, at every point of a run
\* and for every mix of outcomes, at most N - 1 ledger entries were recorded
\* in memory since the last save_progress.
C11_FlushBound == Unsaved <= save_interval - 1

\* number of times address a occurs in the list q
Occ(q, a) == Cardinality({i \in 1..Len(q) : q[i] = a})

\* number of times address a is counted in the four result lists of main
Counted(a) ==
    Occ(already_processed, a) + Occ(successful, a) + Occ(failed, a) + Occ(skipped, a)

\* every address the loop has passed is counted once, the others not yet
VisitedCountedOnce ==
    /\ \A i \in 1..Len(addresses) : Counted(addresses[i]) = (IF i < pos THEN 1 ELSE 0)
    /\ main_pc = "done" => pos = Len(addresses) + 1

ClaimedDue(p) ==
    CASE p = 1 -> now > creation_time
      [] p = 2 -> now > creation_time + 12 * 3600
      [] p = 3 -> now > creation_time + 24 * 3600
      [] p = 4 -> now > creation_time + 8 * 24 * 3600
ClaimedTag(p) == CASE p \in {1, 2} -> "1m" [] p = 3 -> "1H" [] p = 4 -> "12H"

\* the requests made, and those that gave a non-empty series
Attempted == {fm_calls[i].phase : i \in 1..Len(fm_calls)}
GaveData(i) == fm_calls[i].result # None /\ fm_calls[i].result[1] # <<>>

\* C13: the requests are issued in the order A1, A2, B, C; A1 iff now > c, A2
\* iff now > c+12h, B iff now > c+24h, C iff now > c+8d; for now = c + 10 days
\* all four are attempted and, if all give data, the status is "4/4 phases"
\* and every record carries the interval tag of its phase.
C13_PhaseOrder ==
    fm_pc = "done" =>
        /\ \A i \in 1..(Len(fm_calls) - 1) : fm_calls[i].phase < fm_calls[i + 1].phase
        /\ Attempted = {p \in PhaseIds : ClaimedDue(p)}
        /\ \A i \in 1..Len(fm_calls) : fm_calls[i].interval = ClaimedTag(fm_calls[i].phase)
        /\ now = creation_time + 10 * 24 * 3600 =>
              /\ Len(fm_calls) = 4
              /\ (\A i \in 1..4 : GaveData(i)) =>
                    /\ fm_status = <<4, 4>>
                    /\ fm_ret # None
                    /\ \A j \in 1..Len(fm_ret[1]) :
                          fm_ret[1][j].interval = ClaimedTag(fm_ret[1][j].src)

\* ten days after creation, four requests with data
C13_Witness ==
    /\ fm_pc = "done"
    /\ now = creation_time + 10 * 24 * 3600
    /\ \A i \in 1..4 : GaveData(i)
    /\ fm_status = <<4, 4>>

\* number of the requests whose `if` the function has passed
Passed ==
    CASE fm_pc = "phase1a" -> 0
      [] fm_pc = "phase1b" -> 1
      [] fm_pc = "phase2" -> 2
      [] fm_pc = "phase3" -> 3
      [] OTHER -> 4

\* C14: a request that fails (no result, empty result, exception) never
\* keeps a later request from being made: at every point the requests made
\* are exactly those, among the ones passed, whose time condition holds,
\* whatever the earlier results were.
C14_FailureIndependent ==
    /\ Attempted = {p \in 1..Passed : ClaimedDue(p)}
    /\ phases_attempted = Cardinality(Attempted)

\* every attempt of A1 raised, A2 gave None, B gave an empty series, and C
\* was still requested and gave data
C14_Witness ==
    /\ fm_pc = "done"
    /\ Len(fm_calls) = 4
    /\ fm_calls[1].raised = SAFE_MAX_RETRIES + 1
    /\ fm_calls[2].raised = 0 /\ fm_calls[2].result = None
    /\ fm_calls[3].result = Some(<<>>)
    /\ GaveData(4)
    /\ fm_status = <<1, 4>>

\* all records the requests returned
RECURSIVE Returned_records(_)
Returned_records(i) ==
    IF i = 0 THEN {}
    ELSE Returned_records(i - 1) \cup
         (IF fm_calls[i].result = None THEN {}
          ELSE {[ts |-> fm_calls[i].result[1][k].ts, src |-> fm_calls[i].phase] :
                    k \in 1..Len(fm_calls[i].result[1])})

\* C15: the merged series is sorted by ts ascending and holds exactly one
\* record per distinct ts among the phase results; of two records with the
\* same ts the one of the earlier phase is kept.
C15_MergeKeepsEarlier ==
    (fm_pc = "done" /\ fm_ret # None) =>
        LET out == fm_ret[1]
            all == Returned_records(Len(fm_calls))
        IN  /\ \A j \in 1..(Len(out) - 1) : out[j].ts < out[j + 1].ts
            /\ {out[j].ts : j \in 1..Len(out)} = {r.ts : r \in all}
            /\ \A j \in 1..Len(out) : \A r \in all :
                   r.ts = out[j].ts => out[j].src <= r.src

\* C16: the status is "s/a phases" with 0 <= s <= a <= 4, a the number of
\* requests made and s the number that gave a non-empty result; the series
\* returned is None exactly when s = 0, and the status is 0/0 exactly when
\* now <= creation time.
C16_Status ==
    fm_pc = "done" =>
        LET s == fm_status[1]
            a == fm_status[2]
        IN  /\ 0 <= s /\ s <= a /\ a <= 4
            /\ a = Len(fm_calls)
            /\ s = Cardinality({i \in 1..Len(fm_calls) : GaveData(i)})
            /\ (fm_ret = None) <=> (s = 0)
            /\ (fm_status = <<0, 0>>) <=> (now <= creation_time)

\* two requests made, neither gave data: status 0/2 and no series
C16_Witness ==
    /\ fm_pc = "done"
    /\ fm_status = <<0, 2>>
    /\ fm_ret = None
    /\ fm_calls[1].result = Some(<<>>)
    /\ fm_calls[2].raised = SAFE_MAX_RETRIES + 1

\* =====================================================================
\* Properties of the cached lookups
\* =====================================================================

MetadataCall(e) == e.fn = "get_token_metadata"
SecurityCall(e) == e.fn = "get_token_security_details"

\* read_csv of the CSV gives a frame with a row for the address
HasRow(csv, address) ==
    /\ CsvReadable(csv)
    /\ AddressColumn(csv) # 0
    /\ MatchingRows(csv, address) # {}

\* the call was answered from the cache
IsHit(e) == e.requests = 0 /\ e.ret # None

\* C17: a call without force_refresh that finds a readable metadata file,
\* respectively a row for the address in the CSV, issues no HTTP request,
\* returns the stored entry and leaves the cache files unchanged.
C17_CacheHit ==
    \A i \in 1..Len(cache_log) :
        LET e == cache_log[i]
        IN  /\ (MetadataCall(e) /\ ~e.force_refresh /\ e.md_before.st = "json") =>
                  /\ e.requests = 0
                  /\ e.ret = Some(e.md_before.doc)
                  /\ e.md_after = e.md_before
                  /\ e.csv_after = e.csv_before
            /\ (SecurityCall(e) /\ ~e.force_refresh /\ HasRow(e.csv_before, e.address)) =>
                  /\ e.requests = 0
                  /\ \E r \in MatchingRows(e.csv_before, e.address) :
                        e.ret = Some(RowDict(e.csv_before, r))
                  /\ e.md_after = e.md_before
                  /\ e.csv_after = e.csv_before

\* both lookups answered from the cache for the same address
C17_Witness ==
    /\ Len(cache_log) = 2
    /\ MetadataCall(cache_log[1]) /\ IsHit(cache_log[1])
    /\ SecurityCall(cache_log[2]) /\ IsHit(cache_log[2])
    /\ cache_log[1].address = cache_log[2].address

\* C18: of two consecutive calls of the same lookup on the same address
\* without force_refresh, the first of which fetches and persists, the
\* second issues no network call and returns a value equal to the value the
\* first returned.
C18_Idempotent ==
    \A i \in 1..(Len(cache_log) - 1) :
        LET e1 == cache_log[i]
            e2 == cache_log[i + 1]
        IN  (/\ e2.seq = e1.seq + 1
             /\ e1.fn = e2.fn
             /\ e1.address = e2.address
             /\ ~e1.force_refresh /\ ~e2.force_refresh
             /\ e1.fetched # None /\ e1.saved) =>
                /\ e2.requests = 0
                /\ e2.ret # None
                /\ DictEq(e2.ret[1], e1.ret[1])

\* the header cells and the row cells that hold the flattened data
StoredCells(flat) == {<<Columns(flat)[k], Cells(flat)[k]>> : k \in 1..Len(flat)}
RowCells(csv, r) ==
    {<<csv.header[k], (IF k <= Len(csv.rows[r]) THEN csv.rows[r][k] ELSE EmptyCell)>> :
        k \in 1..Len(csv.header)}

\* C19: whenever a lookup returns a value obtained from a successful fetch,
\* the persisted store already holds that value for the address when the
\* call returns.
C19_PersistBeforeReturn ==
    \A i \in 1..Len(cache_log) :
        LET e == cache_log[i]
        IN  (e.fetched # None /\ e.ret # None) =>
                /\ MetadataCall(e) => e.md_after = JsonDump(e.fetched[1])
                /\ SecurityCall(e) =>
                      /\ HasRow(e.csv_after, e.address)
                      /\ \E r \in MatchingRows(e.csv_after, e.address) :
                            RowCells(e.csv_after, r) = StoredCells(_flatten_dict(e.ret[1]))

\* C20: when the process stops between receiving a fetched value and the
\* end of its persistence, the store holds the previous state for the key
\* or the complete new entry, never a truncated or half-written record.
C20_CrashAtomic ==
    cache_pc = "crashed" =>
        /\ MetadataCall(cache_call) =>
              metadata_files[cache_call.address]
                  \in {cache_call.md_before, JsonDump(cache_call.fetched[1])}
        /\ SecurityCall(cache_call) => security_csv \in {cache_call.csv_before, pending_csv}

\* =====================================================================
\* Properties of the creation-time precondition of main
\* =====================================================================

ExpectedEntries ==
    LET failing == {i \in 1..Len(responses) : ~Success(responses[i])}
    IN  [i \in 1..Cardinality(failing) |->
            Entry(i, Identifier, ErrorText(responses[i]), Some(Url(offset)))]

\* a step only appends to the error file, and at most one line
AppendsAtMostOne ==
    \/ error_file' = error_file
    \/ \E e \in {error_file'[Len(error_file')]} : error_file' = Append(error_file, e)

\* C22 as stated: every attempt that does not succeed appends exactly one
\* entry with timestamp, identifier, error text and URL to the error file, a
\* successful attempt appends none, and entries are only ever appended.
C22_Original ==
    /\ [](\E old \in ErrorFiles : error_file = old \o ExpectedEntries)
    /\ [][AppendsAtMostOne]_vars

\* C22: when the error file can be opened and written, every attempt that
\* does not succeed appends exactly one entry with timestamp, identifier,
\* error text and URL, and a successful attempt appends none; when it cannot,
\* nothing is appended; entries are only ever appended.
C22_ErrorLog ==
    /\ [](\E old \in ErrorFiles :
            error_file = (IF error_file_writable THEN old \o ExpectedEntries ELSE old))
    /\ [][AppendsAtMostOne]_vars

\* a call on a file that holds an earlier line: a transport error, a 429 and
\* a 401 were logged behind it
C22_Witness ==
    /\ mr_pc = "done"
    /\ error_file_writable
    /\ Len(responses) = 3
    /\ responses[1].status = NoResponse
    /\ responses[2].status = 429
    /\ responses[3].status = 401
    /\ error_file = <<EarlierEntry,
                      Entry(1, Identifier, <<"exception">>, Some(Url(0))),
                      Entry(2, Identifier, <<"Rate limit (429)">>, Some(Url(0))),
                      Entry(3, Identifier, <<"HTTP", 401>>, Some(Url(0)))>>

\* =====================================================================
\* Properties of moralis get_price_by_token
\* =====================================================================

\* the consolidated file on disk holds the records received for the call
InConsolidatedFile(call) ==
    /\ consolidated_file # None
    /\ \A ts \in call.received :
          [timestamp |-> ts, pair_address |-> call.pair_address]
              \in Range(consolidated_file[1])

\* C23: when a pair request raises QuotaExceededException, no request for a
\* later pair is issued, the exception reaches the caller, and the
\* consolidated file on disk holds the records of every earlier pair whose
\* series the server delivered in full.
C23_QuotaStop ==
    pt_pc = "raised" =>
        /\ m_pc = "idle"
        /\ Len(pt_calls) = pt_i
        /\ Last(pt_calls).outcome = "quota"
        /\ \A k \in 1..(Len(pt_calls) - 1) :
              (pt_calls[k].complete /\ pt_calls[k].received # {}) =>
                  InConsolidatedFile(pt_calls[k])

\* =====================================================================
\* Properties of the batch loop of get_creations.py
\* =====================================================================

\* C24: a call of get_token_creation_info that returns None does not end the
\* run: the script does not crash, the loop goes on to the remaining
\* addresses, and the output file holds the row of every address whose
\* call returned its creation info.
C24_NotFatal ==
    /\ gc_pc # "crashed"
    /\ \A i \in 1..Len(gc_calls) :
          /\ (gc_calls[i].info = None /\ gc_pc \in {"loop", "call", "done"}) => gc_pos > i
          /\ (gc_calls[i].info # None /\ gc_pos > i) =>
                (outfile # None /\ gc_calls[i].info[1] \in Range(outfile[1].rows))

\* =====================================================================
\* Properties of the offsets and of the termination of get_token_trade_history
\* =====================================================================

\* C25: the offsets requested are 0, L, 2L, ... in this order, one page
\* request each, so that no offset is requested twice, also not after the
\* invoker gave up on it; the records returned are those of the pages in
\* request order, each page's records in the order the server gave them,
\* cut to the first M when a cap M was reached.
C25_OffsetsAndOrder ==
    /\ Len(offsets) = page_requests
    /\ \A i \in 1..Len(offsets) : offsets[i] = (i - 1) * limit_per_request
    /\ Len(fetched_pages) = page_requests - (IF th_pc = "await" THEN 1 ELSE 0)
    /\ all_trades =
          (IF CapReached(Len(Concat(fetched_pages)), max_total_records)
           THEN Truncate(Concat(fetched_pages), max_total_records[1])
           ELSE Concat(fetched_pages))
    /\ th_pc = "done" => th_ret = Finish(all_trades)

\* three page requests, the third of which the invoker gave up on after a
\* retry: the offsets were 0, L, 2L and the records of pages 1 and 2 are
\* returned in order
C25_Witness ==
    /\ th_pc = "done"
    /\ limit_per_request = 2
    /\ max_total_records = None
    /\ offsets = <<0, 2, 4>>
    /\ Len(responses) = 2
    /\ fetched_pages[3] = None
    /\ th_ret = Some(<<0, 1, 2, 3>>)

\* ceil(m / l)
CeilDiv(m, l) == (m + l - 1) \div l

\* the i-th page request is one after which the loop must end: the page is
\* failed, malformed, empty or shorter than L, or it brings the total to M
EndsPagination(i) ==
    LET r == fetched_pages[i] IN
    \/ ~GoodPage(r)
    \/ r[1].items = <<>>
    \/ Len(r[1].items) < limit_per_request
    \/ /\ Truthy(max_total_records)
       /\ Len(Concat(SubSeq(fetched_pages, 1, i))) >= max_total_records[1]

\* the loop ends at the first page that ends pagination, and only there;
\* with a cap M >= 1 there are at most ceil(M / L) page requests
EndsAtFirstSuchPage ==
    /\ \A i \in 1..Len(fetched_pages) :
          EndsPagination(i) <=> (i = Len(fetched_pages) /\ th_pc = "done")
    /\ th_pc = "done" => Len(fetched_pages) = page_requests
    /\ (max_total_records # None /\ max_total_records[1] >= 1) =>
          page_requests <= CeilDiv(max_total_records[1], limit_per_request)

\* C26: the loop ends at the first page that is failed, malformed, empty or
\* shorter than L, or that brings the total to M; with a cap M >= 1 at most
\* ceil(M / L) page requests are issued; and against a server that
\* eventually returns such a page the function returns.
C26_Terminates ==
    /\ []EndsAtFirstSuchPage
    /\ <>(th_pc = "done")

\* a run that the cap ended: L = 2 and M = 5 against a server with four
\* pages, three page requests, five records
C26_Witness ==
    /\ th_pc = "done"
    /\ limit_per_request = 2
    /\ max_total_records = Some(5)
    /\ Len(pages) = 4
    /\ page_requests = 3
    /\ page_requests = CeilDiv(5, 2)
    /\ Len(th_ret[1]) = 5

\* the window [start_ts, end_ts) of the i-th safe_api_call
WindowLen(i) == fm_calls[i].end_ts - fm_calls[i].start_ts

\* the windows asked for so far are non-empty, end at now at the latest,
\* follow each other without gap or overlap from creation_time on, and keep
\* the span their interval allows
WindowsInOrder ==
    /\ \A i \in 1..Len(fm_calls) :
          /\ fm_calls[i].start_ts < fm_calls[i].end_ts
          /\ fm_calls[i].end_ts <= now
          /\ fm_calls[i].interval = "1m" => WindowLen(i) <= 12 * HOUR
          /\ fm_calls[i].interval = "1H" => WindowLen(i) <= 7 * DAY
    /\ \A i \in 1..Len(fm_calls), j \in 1..Len(fm_calls) :
          i < j => fm_calls[i].end_ts <= fm_calls[j].start_ts
    /\ \A i \in 1..(Len(fm_calls) - 1) : fm_calls[i].end_ts = fm_calls[i + 1].start_ts
    /\ fm_calls # <<>> => fm_calls[1].start_ts = creation_time

\* C27: every window asked for has start_ts < end_ts and ends at now at the
\* latest; the windows are pairwise non-overlapping and contiguous; once all
\* requests are made their union is [creation_time, now) (no request at all
\* when now <= creation_time); a 1m window spans at most 12 hours and the 1H
\* window at most 7 days.
C27_TimeWindows ==
    /\ WindowsInOrder
    /\ fm_pc \in {"combine", "done"} =>
          IF now > creation_time
          THEN fm_calls # <<>> /\ fm_calls[Len(fm_calls)].end_ts = now
          ELSE fm_calls = <<>>

\* a token ten days old: four windows of 12 hours, 12 hours, 7 days and 2 days
C27_Witness ==
    /\ fm_pc = "done"
    /\ now = creation_time + 10 * DAY
    /\ Len(fm_calls) = 4
    /\ [i \in 1..4 |-> WindowLen(i)] = <<12 * HOUR, 12 * HOUR, 7 * DAY, 2 * DAY>>
    /\ fm_calls[3].interval = "1H"
    /\ fm_calls[4].end_ts = now

\* the addresses this run has appended to completed
NewlyCompleted ==
    Range(progress.completed) \
        (IF args_reset THEN {} ELSE Range(initial_ledger.completed))

\* the iterations of this run for address a
IterationsOf(a) == {i \in 1..Len(iterations) : iterations[i].address = a}

\* every address this run has appended to completed has its output file,
\* written in the iteration that fetched a non-empty series for it, and no
\* iteration that gave no data or raised
CompletedHaveFiles ==
    main_pc # "start" =>
        \A a \in NewlyCompleted :
            /\ a \in ohlcv_files
            /\ IterationsOf(a) # {}
            /\ \A i \in IterationsOf(a) :
                  iterations[i].result = "data" /\ iterations[i].written

\* a step of the loop changes completed only by appending the address whose
\* file the same iteration has written
AppendsAfterWrite ==
    (main_pc = "loop" /\ progress'.completed # progress.completed) =>
        /\ progress'.completed = Append(progress.completed, addresses[pos])
        /\ addresses[pos] \in ohlcv_files' \ ohlcv_files
        /\ iterations' = Append(iterations, iterations'[Len(iterations')])
        /\ iterations'[Len(iterations')].address = addresses[pos]
        /\ iterations'[Len(iterations')].result = "data"
        /\ iterations'[Len(iterations')].written

\* C28: an address is appended to completed only in the iteration that has
\* written its OHLCV output file with a non-empty series; an address whose
\* fetch gave no data or raised, or whose file write raised, is never
\* appended to completed.
C28_CompletedAfterWrite ==
    /\ []CompletedHaveFiles
    /\ [][AppendsAfterWrite]_vars

\* a run in which one address was completed and another one had a series
\* fetched but the write of its file raised
C28_Witness ==
    /\ main_pc = "done"
    /\ NewlyCompleted # {}
    /\ \E i \in 1..Len(iterations) :
          /\ iterations[i].result = "data"
          /\ ~iterations[i].written
          /\ iterations[i].address \notin Range(progress.completed)
          /\ iterations[i].address \in Range(progress.failed)

\* a source supplies a creation time when it holds a number other than 0 or
\* the decimal string of one
Supplies(v) == IsTruthy(v) /\ ToInt(v) # None

\* the creation time the first supplying source holds, None when none does
FirstSupplied ==
    IF Supplies(lk_security) THEN ToInt(lk_security)
    ELSE IF lk_metadata.meta = "value" /\ Supplies(lk_metadata.v) THEN ToInt(lk_metadata.v)
    ELSE IF Supplies(lk_creation_info) THEN ToInt(lk_creation_info)
    ELSE None

\* C29: the lookup returns the creationTime of security_details.csv when it
\* is there, otherwise the meme_info.creation_time of the metadata, otherwise
\* the blockUnixTime of token_creation_info.csv, and None only when none of
\* the three supplies a creation time.
C29_LookupOrder == lk_pc = "done" => lk_ret = FirstSupplied

\* the file of the lookup holds, for the address of call e, the value the
\* call fetched
HoldsFetched(e) ==
    IF MetadataCall(e)
    THEN e.md_after = JsonDump(e.fetched[1])
    ELSE /\ HasRow(e.csv_after, e.address)
         /\ \A r \in MatchingRows(e.csv_after, e.address) :
               RowCells(e.csv_after, r)
                   = StoredCells(_flatten_dict(WithAddress(e.fetched[1], e.address)))

\* C30: a call with force_refresh = True issues a request even when the
\* cache holds a valid entry for the address, and when the fetch succeeds
\* the persisted entry of the address afterwards holds the fetched value.
C30_ForceRefresh ==
    \A i \in 1..Len(cache_log) :
        LET e == cache_log[i]
        IN  e.force_refresh =>
               /\ e.requests = 1
               /\ e.fetched # None => HoldsFetched(e)

\* =====================================================================
\* Properties of the Moralis retry loop
\* =====================================================================

Is429(i) == m_log[i].status = 429

\* the number of 429 responses among the first i responses, and the length
\* of the run of consecutive 429 responses that ends with response i
RECURSIVE Count429(_)
Count429(i) == IF i = 0 THEN 0 ELSE Count429(i - 1) + (IF Is429(i) THEN 1 ELSE 0)
RECURSIVE Run429(_)
Run429(i) == IF i = 0 \/ ~Is429(i) THEN 0 ELSE Run429(i - 1) + 1

\* a page is requested for the first time, or again after an answer that
\* was not a 429: the counter and the delay are at their start values
FreshAttempt ==
    (m_pc = "request" /\ (m_log = <<>> \/ ~Is429(Len(m_log)))) =>
        retry_count = 0 /\ backoff_delay = initial_backoff

OtherFailure(i) == ~m_log[i].ok /\ m_log[i].status \notin {429, 401}

\* C32: a request error that is not a 429, or a JSON decode error, ends the
\* pagination: no request follows it and the function returns what was
\* accumulated so far.
C32_ErrorEndsPagination ==
    \A i \in 1..Len(m_log) :
        OtherFailure(i) =>
            /\ i = Len(m_log)
            /\ m_pc = "returned"
            /\ m_ret = MoralisFinish(all_results)

\* =====================================================================
\* Properties of get_price_by_token
\* =====================================================================

\* the calls of get_historical_prices that ended in an exception other than
\* QuotaExceededException (here: `price_df.empty` on a None result)
RaisedCalls == {k \in 1..Len(pt_calls) : pt_calls[k].outcome = "none"}

\* C33: an exception other than QuotaExceededException while one pair is
\* fetched does not stop the loop: the pairs are requested one after the
\* other, the function returns only after the last of them, and the mapping
\* returned holds exactly the pairs whose fetch returned a non-empty series.
C33_ExceptionContinues ==
    /\ \A k \in 1..Len(pt_calls) : pt_calls[k].pair_address = pair_addresses[k]
    /\ \A k \in RaisedCalls : pt_pc \in {"loop", "await"} => pt_i > k
    /\ pt_pc = "returned" =>
          /\ Len(pt_calls) = Len(pair_addresses)
          /\ {r[1] : r \in results}
                = {pt_calls[k].pair_address :
                      k \in {j \in 1..Len(pt_calls) : pt_calls[j].outcome = "series"}}

\* the fetch of the first pair raised, the second pair was requested
\* afterwards and the function returned
C33_Witness ==
    /\ pt_pc = "returned"
    /\ Len(pair_addresses) = 2
    /\ pt_calls[1].outcome = "none"
    /\ pt_calls[1].received # {}
    /\ pt_calls[2].outcome = "empty"
    /\ results = {}

\* =====================================================================
\* raydium/get_transactions.py: getTxSigs and the getTxDetail threads
\* =====================================================================

\* the threads that have been started and have not ended
Running == {i \in DOMAIN threads : threads[i].state = "running"}

\* the thread the join loop is waiting for: the rd_i-th of the batch
JoinTarget == Len(threads) - signatures + rd_i

\* `thread.join()` returns once the thread has ended
CanJoinRunning(t) == TRUE
CanJoin(t) == t.state = "finished"

\* `if(txCount >= num_sigs): break`
EnoughSigs(count, n) == count >= n

SigRequest(ok) ==
    [before |-> lastSignature, round |-> rounds, running |-> Running, ok |-> ok]

\* get_signatures_for_address raises: sleep 5 seconds and ask again
RD_RequestRaises ==
    /\ rd_pc = "request"
    /\ sig_errors < MaxSigErrors
    /\ sig_errors' = sig_errors + 1
    /\ sig_requests' = Append(sig_requests, SigRequest(FALSE))
    /\ UNCHANGED <<sig_pages, num_sigs, rounds, txCount, lastSignature, signatures,
                   threads, rd_i, rd_pc, resultArr, tx_errors>>
    /\ UNCHANGED outside_raydium

\* the page before the cursor arrives: an empty page ends the loop, else
\* its signatures are appended to sig_file and those not in known_sigs
\* become the batch; a failure of that write leaves getTxSigs
RD_Request ==
    /\ rd_pc = "request"
    /\ sig_requests' = Append(sig_requests, SigRequest(TRUE))
    /\ IF lastSignature + 1 > Len(sig_pages)
       THEN /\ rd_pc' = "regrab"
            /\ UNCHANGED <<signatures, rd_i>>
       ELSE \/ /\ signatures' = sig_pages[lastSignature + 1]
               /\ rd_i' = 1
               /\ rd_pc' = IF sig_pages[lastSignature + 1] = 0 THEN "join" ELSE "start"
            \/ /\ rd_pc' = "raised"
               /\ UNCHANGED <<signatures, rd_i>>
    /\ UNCHANGED <<sig_pages, num_sigs, rounds, txCount, lastSignature, threads,
                   sig_errors, resultArr, tx_errors>>
    /\ UNCHANGED outside_raydium

\* one turn of the start loop: count the signature, create the thread,
\* start it
RD_Start ==
    /\ rd_pc = "start"
    /\ txCount' = txCount + 1
    /\ threads' = Append(threads, [batch |-> rounds + 1, state |-> "running"])
    /\ IF rd_i = signatures
       THEN rd_pc' = "join" /\ rd_i' = 1
       ELSE rd_pc' = "start" /\ rd_i' = rd_i + 1
    /\ UNCHANGED <<sig_pages, num_sigs, rounds, lastSignature, signatures,
                   sig_requests, sig_errors, resultArr, tx_errors>>
    /\ UNCHANGED outside_raydium

\* `x.start()` raises (no new thread can be started): getTxSigs is left
\* with the threads it has started still running
RD_StartRaises ==
    /\ rd_pc = "start"
    /\ txCount' = txCount + 1
    /\ rd_pc' = "raised"
    /\ UNCHANGED <<sig_pages, num_sigs, rounds, lastSignature, signatures, threads,
                   rd_i, sig_requests, sig_errors, resultArr, tx_errors>>
    /\ UNCHANGED outside_raydium

\* one turn of the join loop
RD_Join ==
    /\ rd_pc = "join"
    /\ rd_i <= signatures
    /\ CanJoin(threads[JoinTarget])
    /\ rd_i' = rd_i + 1
    /\ UNCHANGED <<sig_pages, num_sigs, rounds, txCount, lastSignature, signatures,
                   threads, rd_pc, sig_requests, sig_errors, resultArr, tx_errors>>
    /\ UNCHANGED outside_raydium

\* after the join loop: stop when enough signatures were counted, else
\* advance the round counter and the cursor and sleep 3 seconds
RD_Advance ==
    /\ rd_pc = "join"
    /\ rd_i > signatures
    /\ IF EnoughSigs(txCount, num_sigs)
       THEN /\ rd_pc' = "regrab"
            /\ UNCHANGED <<rounds, lastSignature>>
       ELSE /\ rounds' = rounds + 1
            /\ lastSignature' = lastSignature + 1
            /\ rd_pc' = "request"
    /\ UNCHANGED <<sig_pages, num_sigs, txCount, signatures, threads, rd_i,
                   sig_requests, sig_errors, resultArr, tx_errors>>
    /\ UNCHANGED outside_raydium

\* after the loop: the signatures of the error file are looked up again,
\* one after the other, by getTxSigs itself; again is the set that fails again
RD_Regrab ==
    /\ rd_pc = "regrab"
    /\ \E again \in SUBSET tx_errors :
        /\ tx_errors' = again
        /\ resultArr' = resultArr \cup (tx_errors \ again)
    /\ rd_pc' = "done"
    /\ UNCHANGED <<sig_pages, num_sigs, rounds, txCount, lastSignature, signatures,
                   threads, rd_i, sig_requests, sig_errors>>
    /\ UNCHANGED outside_raydium

\* getTxDetail in thread i: the transaction is appended to resultArr, or
\* get_transaction raises and the signature goes to the error file, or the
\* thread dies of another exception; in each case the thread ends
TX_Detail(i) ==
    /\ threads[i].state = "running"
    /\ threads' = [threads EXCEPT ![i].state = "finished"]
    /\ \/ resultArr' = resultArr \cup {i} /\ UNCHANGED tx_errors
       \/ tx_errors' = tx_errors \cup {i} /\ UNCHANGED resultArr
       \/ UNCHANGED <<resultArr, tx_errors>>
    /\ UNCHANGED <<sig_pages, num_sigs, rounds, txCount, lastSignature, signatures,
                   rd_i, rd_pc, sig_requests, sig_errors>>
    /\ UNCHANGED outside_raydium

InitRaydium ==
    /\ sig_pages \in UNION {[1..n -> 0..MaxBatchSigs] : n \in 0..MaxSigPages}
    /\ num_sigs \in 1..MaxNumSigs
    /\ rounds = 0
    /\ txCount = 0
    /\ lastSignature = 0
    /\ signatures = 0
    /\ threads = <<>>
    /\ rd_i = 1
    /\ rd_pc = "request"
    /\ sig_requests = <<>>
    /\ sig_errors = 0
    /\ resultArr = {}
    /\ tx_errors = {}
    /\ InvokerIdle
    /\ CollectorIdle
    /\ MoralisIdle
    /\ PriceIdle
    /\ CreationsIdle
    /\ MainIdle
    /\ FetchIdle
    /\ CacheIdle
    /\ LookupIdle
    /\ SafeIdle

NextRaydium ==
    \/ RD_RequestRaises
    \/ RD_Request
    \/ RD_Start
    \/ RD_StartRaises
    \/ RD_Join
    \/ RD_Advance
    \/ RD_Regrab
    \/ \E i \in DOMAIN threads : TX_Detail(i)

SpecRaydium == InitRaydium /\ [][NextRaydium]_vars

\* ---------------------------------------------------------------------
\* Properties of getTxSigs
\* ---------------------------------------------------------------------

\* C34: batch barrier. No thread is running when a signature page is
\* requested, nor when the round counter or the cursor changes, and a
\* running thread always belongs to the batch of the current round.
C34_BarrierState ==
    /\ rd_pc = "request" => Running = {}
    /\ \A k \in DOMAIN sig_requests : sig_requests[k].running = {}
    /\ \A i \in Running : threads[i].batch = rounds + 1
C34_BatchBarrier ==
    /\ []C34_BarrierState
    /\ [][(rounds' # rounds \/ lastSignature' # lastSignature) => Running = {}]_vars

\* two batches were run, and the threads of the first had to be waited for
C34_Witness ==
    /\ \E i, j \in DOMAIN threads : threads[i].batch = 1 /\ threads[j].batch = 2
    /\ Len(sig_requests) >= 2
    /\ rd_pc = "join" /\ Running # {}

\* ---------------------------------------------------------------------
\* Properties of the cache after a failed fetch
\* ---------------------------------------------------------------------

\* the call that has just returned asked the API and got no data
FailedFetch(call) == call.requests = 1 /\ call.fetched = None

\* C35: a call of get_token_metadata or get_token_security_details whose
\* fetch gives no result or no 'data' field returns None, and the metadata
\* files and the security-details CSV are as they were before the call.
C35_FailedFetchState ==
    \A k \in DOMAIN cache_log :
        FailedFetch(cache_log[k]) =>
            /\ cache_log[k].ret = None
            /\ cache_log[k].md_after = cache_log[k].md_before
            /\ cache_log[k].csv_after = cache_log[k].csv_before
C35_FailedFetch ==
    /\ []C35_FailedFetchState
    /\ [][(Len(cache_log') = Len(cache_log) + 1 /\ FailedFetch(cache_log'[Len(cache_log')]))
            => UNCHANGED <<metadata_files, security_csv>>]_vars

\* both functions failed a forced refresh of an address whose files exist
C35_Witness ==
    /\ Len(cache_log) = 2
    /\ \A k \in 1..2 :
        /\ FailedFetch(cache_log[k])
        /\ cache_log[k].force_refresh
        /\ cache_log[k].md_before # NoFile
        /\ cache_log[k].csv_before # NoCsvFile
    /\ cache_log[1].fn # cache_log[2].fn

\* ---------------------------------------------------------------------
\* Properties of data/security_details.csv
\* ---------------------------------------------------------------------

\* the rows of the file whose 'address' cell is the address
RowsOf(csv, address) ==
    IF csv.exists /\ AddressColumn(csv) # 0 THEN MatchingRows(csv, address) ELSE {}

DuplicateFree(list) == \A i, j \in DOMAIN list : list[i] = list[j] => i = j

\* the three lists are duplicate-free and pairwise disjoint
WellFormedLedger(p) ==
    /\ DuplicateFree(p.completed)
    /\ DuplicateFree(p.failed)
    /\ DuplicateFree(p.skipped)
    /\ Range(p.completed) \cap Range(p.failed) = {}
    /\ Range(p.completed) \cap Range(p.skipped) = {}
    /\ Range(p.failed) \cap Range(p.skipped) = {}

StatusIn(p, a) ==
    IF a \in Range(p.completed) THEN "completed"
    ELSE IF a \in Range(p.failed) THEN "failed"
    ELSE IF a \in Range(p.skipped) THEN "skipped"
    ELSE "none"

\* the addresses whose output file was there when main started: the files
\* written in this run are those of the addresses in successful
FilesBefore == ohlcv_files \ Range(successful)

\* C38 as stated: an address whose output file exists is never fetched and
\* has, when main ends, the ledger status it had when main started,
\* whatever the flags.
C38_Original ==
    \A a \in FilesBefore :
        /\ a \notin network
        /\ main_pc = "done" => StatusIn(ledger_file, a) = StatusIn(initial_ledger, a)

\* C38: an address whose output file exists is never fetched, and the loop
\* gives it no ledger entry: its status stays what the ledger held once
\* --reset and --retry-failed had been applied to it.
C38_ShortCircuit ==
    \A a \in FilesBefore :
        /\ a \notin network
        /\ a \notin ohlcv_fetched
        /\ main_pc # "start" =>
              StatusIn(progress, a) = StatusIn(AfterRetryFailed(IF args_reset THEN EmptyLedger ELSE initial_ledger), a)
        /\ main_pc = "done" => StatusIn(ledger_file, a) = StatusIn(progress, a)

\* a run in which other addresses were fetched has ended; the file of an
\* address was there, the address was passed over, and --reset or
\* --retry-failed took the entry the ledger had for it
C38_Witness ==
    /\ main_pc = "done"
    /\ network # {}
    /\ \E a \in FilesBefore :
        /\ a \in Range(already_processed)
        /\ StatusIn(initial_ledger, a) # "none"
        /\ StatusIn(ledger_file, a) = "none"

\* ---------------------------------------------------------------------
\* Properties of the consolidated price_history file
\* ---------------------------------------------------------------------

\* no two rows of the frame have the same (timestamp, pair_address)
UniqueKeys(rows) ==
    \A i, j \in DOMAIN rows :
        (rows[i].timestamp = rows[j].timestamp /\ rows[i].pair_address = rows[j].pair_address)
            => i = j

\* C39: the consolidated file never holds two rows with the same
\* (timestamp, pair_address), and no step of get_price_by_token removes the
\* file or one of its rows.
C39_UniqueRows == consolidated_file # None => UniqueKeys(consolidated_file[1])
Raises == [raises |-> TRUE, value |-> None]
Returns(v) == [raises |-> FALSE, value |-> v]
AttemptOutcomes == {Raises, Returns(None), Returns(Some(<<>>)), Returns(Some(<<1>>))}

\* `if attempt < max_retries`
SafeCanRetry(a, m) == a < m

\* `time.sleep(2 ** attempt)`
SafeSleepLinear(a) == a + 1
SafeSleep(a) == Pow2(a)

\* the wrapped call returns: `return df`
SA_Returns ==
    /\ sa_pc = "attempt"
    /\ ~sa_script[attempt + 1].raises
    /\ sa_made' = Append(sa_made, attempt)
    /\ sa_ret' = sa_script[attempt + 1].value
    /\ sa_pc' = "returned"
    /\ UNCHANGED <<sa_max_retries, sa_script, attempt, sa_sleeps>>
    /\ UNCHANGED outside_safe

\* the wrapped call raises and a retry is left: sleep, `continue`
SA_RaisesRetry ==
    /\ sa_pc = "attempt"
    /\ sa_script[attempt + 1].raises
    /\ SafeCanRetry(attempt, sa_max_retries)
    /\ sa_made' = Append(sa_made, attempt)
    /\ sa_sleeps' = Append(sa_sleeps, SafeSleep(attempt))
    /\ attempt' = attempt + 1
    /\ UNCHANGED <<sa_max_retries, sa_script, sa_pc, sa_ret>>
    /\ UNCHANGED outside_safe

\* the wrapped call raises at the last attempt: `return None`
SA_RaisesLast ==
    /\ sa_pc = "attempt"
    /\ sa_script[attempt + 1].raises
    /\ ~SafeCanRetry(attempt, sa_max_retries)
    /\ sa_made' = Append(sa_made, attempt)
    /\ sa_ret' = None
    /\ sa_pc' = "returned"
    /\ UNCHANGED <<sa_max_retries, sa_script, attempt, sa_sleeps>>
    /\ UNCHANGED outside_safe

InitSafe ==
    /\ sa_max_retries \in 0..MaxSafeRetries
    /\ sa_script \in [1..sa_max_retries + 1 -> AttemptOutcomes]
    /\ attempt = 0
    /\ sa_made = <<>>
    /\ sa_sleeps = <<>>
    /\ sa_pc = "attempt"
    /\ sa_ret = None
    /\ InvokerIdle
    /\ CollectorIdle
    /\ MoralisIdle
    /\ PriceIdle
    /\ CreationsIdle
    /\ MainIdle
    /\ FetchIdle
    /\ CacheIdle
    /\ LookupIdle
    /\ RaydiumIdle

NextSafe ==
    \/ SA_Returns
    \/ SA_RaisesRetry
    \/ SA_RaisesLast

SpecSafe == InitSafe /\ [][NextSafe]_vars

\* ---------------------------------------------------------------------
\* Properties of safe_api_call
\* ---------------------------------------------------------------------

\* the attempts at which the wrapped call does not raise
Quiet == {k \in DOMAIN sa_script : ~sa_script[k].raises}
\* the first of them
FirstQuiet == CHOOSE k \in Quiet : \A q \in Quiet : k <= q

====
